---- MODULE Spec2Model ----
(***************************************************************************)
(* Model of the emoji game engine of src/main.js (lines 616-1560): fixed   *)
(* placement, mobile simulation, runtime layer, runtime level and the game *)
(* controller with its requestAnimationFrame loop.                         *)
(*                                                                         *)
(* Units.  Lengths and positions are in milli-pixels (Px(n) is n pixels),  *)
(* times in milliseconds, speeds in pixels per second, so that the         *)
(* integration step x += vx * (dtMs / 1000) is the exact integer           *)
(* x + vx * dtMs.  Probabilities and per-second rates are in percent.      *)
(* Math.random() is a nondeterministic choice: every operator that draws   *)
(* random numbers yields the SET of results the draws can produce.         *)
(***************************************************************************)
EXTENDS Integers, Sequences, FiniteSets, TLC

VARIABLES
  FixedElements,   \* config table: fixed type key -> FixedElementDef
  MobileElements,  \* config table: mobile type key -> MobileElementDef
  Layers,          \* config table: layer key -> LayerDef
  vp,              \* canvas size [w, h] as returned by viewport()
  fixedKeys,       \* argument of the last placeFixedInBand call
  band,            \* band argument of the last placeFixedInBand / layer call
  placed,          \* list returned by the last placeFixedInBand call
  layer,           \* a RuntimeLayer driven on its own
  level,           \* the RuntimeLevel: Game.level, or one driven on its own
  ended,           \* what the last RuntimeLevel.update returned
  drawn,           \* the glyphs the last operation drew, in drawing order
  removed,         \* key and ttlMs of the instances the last RuntimeLayer.update filtered out
  state,           \* Game.state: "menu" | "running" | "finished"
  levelIndex,      \* Game.levelIndex
  raf,             \* Game._raf: the id of the last requested frame, NoRaf for null
  lastTs,          \* Game._lastTs, NoTs for null
  pending,         \* ids of the animation frame callbacks waiting to fire
  nextId,          \* the id the next requestAnimationFrame call returns
  clock,           \* the timestamp of the last frame
  stopMark,        \* every id below it was requested before the last stopLoop
  fired,           \* the id of the callback the last frame fired
  prev,            \* Game.state and Game.levelIndex before the last call
  scene,           \* the step-scroll parallax page: offsetX, moving, its animation callbacks
  lastDt,          \* frame delta (dtMs) of the last update
  frame,           \* number of updates performed so far
  op,              \* the operation performed last
  thrown           \* whether an operation raised a TypeError

gameVars == <<state, levelIndex, raf, lastTs, pending, nextId, clock, stopMark, fired, prev,
              scene>>

vars == <<FixedElements, MobileElements, Layers, vp, fixedKeys, band, placed, layer, level, ended,
          drawn, removed,
          state, levelIndex, raf, lastTs, pending, nextId, clock, stopMark, fired, prev,
          scene, lastDt, frame, op, thrown>>

-----------------------------------------------------------------------------
(* Core utils *)

Px(n) == n * 1000

Max(a, b) == IF a >= b THEN a ELSE b

Min(a, b) == IF a <= b THEN a ELSE b

Abs(v) == IF v < 0 THEN 0 - v ELSE v

\* Math.sign
Sign(v) == IF v > 0 THEN 1 ELSE IF v < 0 THEN 0 - 1 ELSE 0

\* obj.field ?? dflt
Field(r, f, dflt) == IF f \in DOMAIN r THEN r[f] ELSE dflt

\* table[key] is defined (not undefined)
Has(table, key) == key \in DOMAIN table

\* rand(a, b) = Math.random() * (b - a) + a: the low end, the middle and the
\* high end of the range stand for the uniform draw.
rand(a, b) == {a, a + ((b - a) \div 2), b}

\* Math.random() < p, p in percent: true is possible when p > 0, false when p < 1.
RandomBelow(pPct) == {t \in BOOLEAN : (t => pPct > 0) /\ (~t => pPct < 100)}

clamp(v, a, b) == Max(a, Min(b, v))

\* Mutant of eventThisFrame: an event of rate zero can fire.
eventThisFrameAny(pPerSec, dtMs) == BOOLEAN

\* (pPerSec * dtMs) / 1000, the rate in percent per second: the probability
\* in units of 1 / 100000
EventChance(pPerSec, dtMs) == pPerSec * dtMs

\* The probability 1 in those units
CertainChance == 100 * 1000

\* Mutant of eventThisFrame: Math.random() <= p, which a chance of 0 passes.
eventThisFrameAtMost(pPerSec, dtMs) ==
  {t \in BOOLEAN : ~t => EventChance(pPerSec, dtMs) < CertainChance}

\* eventThisFrame(pPerSec, dtMs) = Math.random() < (pPerSec * dtMs) / 1000
eventThisFrame(pPerSec, dtMs) ==
  {t \in BOOLEAN : /\ t => EventChance(pPerSec, dtMs) > 0
                   /\ ~t => EventChance(pPerSec, dtMs) < CertainChance}

-----------------------------------------------------------------------------
(* Config objects.  The tables keep the shape and the keys of the source;   *)
(* sizes, speeds and durations are scaled down so that a mobile crosses the *)
(* viewport, pauses and expires within a few frames.                        *)

Behaviors ==
  [ traffic |->
      [ spawn  |-> [fromLeftP |-> 50],
        speed  |-> [min |-> 100, max |-> 200],
        events |-> [ changeSpeedPPerSec |-> 35, accelP |-> 55,
                     accelFactor |-> [min |-> 105, max |-> 128],
                     decelFactor |-> [min |-> 75, max |-> 95],
                     pausePPerSec |-> 12, pauseMs |-> [min |-> 40, max |-> 80],
                     turnBackPPerSec |-> 8 ],
        bounds |-> [turnBackAtEdgeP |-> 55, marginFactor |-> 2],
        jitter |-> [ampX |-> 800, ampY |-> 1800, freqHz |-> [min |-> 6, max |-> 12]],
        ttlMs  |-> 120 ],
    floaty |->
      [ spawn  |-> [fromLeftP |-> 50],
        speed  |-> [min |-> 50, max |-> 100],
        events |-> [ changeSpeedPPerSec |-> 12, accelP |-> 50,
                     accelFactor |-> [min |-> 102, max |-> 112],
                     decelFactor |-> [min |-> 82, max |-> 98],
                     pausePPerSec |-> 5, pauseMs |-> [min |-> 40, max |-> 80],
                     turnBackPPerSec |-> 3 ],
        bounds |-> [turnBackAtEdgeP |-> 35, marginFactor |-> 2],
        jitter |-> [ampX |-> 500, ampY |-> 1400, freqHz |-> [min |-> 3, max |-> 7]],
        ttlMs  |-> 160 ] ]

\* The MobileElements table of the source (every behavior reference resolves).
SourceMobileElements ==
  [ car   |-> [fontSize |-> Px(4), ratePerSec |-> 120, behavior |-> "traffic"],
    pwalk |-> [fontSize |-> Px(4), ratePerSec |-> 120, behavior |-> "traffic"],
    bus   |-> [fontSize |-> Px(5), ratePerSec |-> 50,  behavior |-> "traffic"],
    drone |-> [fontSize |-> Px(3), ratePerSec |-> 70,  behavior |-> "floaty"],
    bird  |-> [fontSize |-> Px(3), ratePerSec |-> 90,  behavior |-> "floaty"] ]

\* A table with a malformed entry: the behavior reference of "drone" names
\* no profile of Behaviors.
UnresolvedMobileElements == [SourceMobileElements EXCEPT !.drone.behavior = "hover"]

\* The FixedElements table of the source, cut down to four of its types:
\* non-stackable buildings, stackable trees and clouds.  "building" and
\* "tree", which the source's Layers list, are not keys of the source's
\* table; "mountain" is one, and is left out here.
SourceFixedElements ==
  [ factory |-> [fontSize |-> Px(2), probability |-> 35, stackable |-> FALSE, widthPx |-> Px(4)],
    office  |-> [fontSize |-> Px(2), probability |-> 30, stackable |-> FALSE, widthPx |-> Px(3)],
    dtree   |-> [fontSize |-> Px(2), probability |-> 65, stackable |-> TRUE,  widthPx |-> Px(2)],
    cloud   |-> [fontSize |-> Px(2), probability |-> 65, stackable |-> TRUE,  widthPx |-> Px(3)] ]

-----------------------------------------------------------------------------
(* Fixed placement (stackable / non-stackable) *)

maxAttempts == 22

\* Mutant of Overlaps: only the segment accepted last is compared.
OverlapsLastOnly(seg, occupied) ==
  /\ Len(occupied) > 0
  /\ ~(seg.x1 <= occupied[Len(occupied)].x0 \/ seg.x0 >= occupied[Len(occupied)].x1)

\* occupied.some((s) => !(seg.x1 <= s.x0 || seg.x0 >= s.x1))
Overlaps(seg, occupied) ==
  \E i \in 1..Len(occupied) : ~(seg.x1 <= occupied[i].x0 \/ seg.x0 >= occupied[i].x1)

\* x = rand(0, Math.max(0, vp.w - widthPx))
SampleX(w, widthPx) == rand(0, Max(0, w - widthPx))

\* Mutant of Fits: a footprint that sticks out of the viewport is refused.
FitsInsideViewport(seg, occupied, w) == seg.x1 <= w /\ ~Overlaps(seg, occupied)

\* if (!overlaps): the sampled segment of a non-stackable type is accepted
Fits(seg, occupied, w) == ~Overlaps(seg, occupied)

\* Mutant of GiveUp: when the attempts run out the last sample is taken.
GiveUpPlaces(x, occupied) == [ok |-> TRUE, x |-> x, occupied |-> occupied]

\* The attempts have run out: ok is still false (if (!ok) continue), x holds
\* the last sample and nothing has been pushed on occupied
GiveUp(x, occupied) == [ok |-> FALSE, x |-> x, occupied |-> occupied]

\* Mutant of Occupy: the segment of a stackable type is recorded too.
OccupyAlways(stackable, occupied, seg) == Append(occupied, seg)

\* What an accepted sample leaves in occupied: a stackable type breaks out of
\* the loop before the segment is built, a non-stackable one does
\* occupied.push(seg)
Occupy(stackable, occupied, seg) == IF stackable THEN occupied ELSE Append(occupied, seg)

\* The attempt loop "for (let a = 0; a < maxAttempts; a++)" from attempt a on:
\* the set of [ok, x, occupied] it can end with.
RECURSIVE AttemptLoop(_, _, _, _, _)
AttemptLoop(a, stackable, widthPx, occupied, w) ==
  LET xs      == SampleX(w, widthPx)
      seg(x)  == [x0 |-> x, x1 |-> x + widthPx]
      free    == {x \in xs : stackable \/ Fits(seg(x), occupied, w)}
  IN
  IF a >= maxAttempts
  THEN {GiveUp(x, occupied) : x \in IF a = 0 THEN {0} ELSE xs \ free}
  ELSE LET accepted ==
             {[ok |-> TRUE, x |-> x,
               occupied |-> Occupy(stackable, occupied, seg(x))]
                : x \in free}
       IN  accepted \cup
           (IF xs \ free = {} THEN {}
            ELSE AttemptLoop(a + 1, stackable, widthPx, occupied, w))

FixedInstance(key, fontSize, x, y) ==
  [type |-> "fixed", key |-> key, fontSize |-> fontSize, x |-> x, y |-> y, tMs |-> 0]

\* One iteration of "for (const key of fixedKeys)": the set of
\* [placed, occupied] the iteration can leave.
PlaceKey(key, st, bnd, v) ==
  IF ~Has(FixedElements, key) THEN {st}
  ELSE
    LET def      == FixedElements[key]
        p        == Field(def, "probability", 0)
        fontSize == Field(def, "fontSize", Px(48))
        widthPx  == Field(def, "widthPx", (fontSize * 12) \div 10)
        ys       == rand(bnd.yTop, Max(bnd.yTop, bnd.yBottom - fontSize))
        tries    == AttemptLoop(0, Field(def, "stackable", FALSE), widthPx, st.occupied, v.w)
    IN  (IF p < 100 THEN {st} ELSE {})
        \cup
        (IF p > 0
         THEN UNION {
                IF ~t.ok THEN {[placed |-> st.placed, occupied |-> t.occupied]}
                ELSE {[placed   |-> Append(st.placed, FixedInstance(key, fontSize, t.x, y)),
                       occupied |-> t.occupied] : y \in ys}
                : t \in tries }
         ELSE {})

RECURSIVE PlaceFrom(_, _, _, _, _)
PlaceFrom(i, keys, st, bnd, v) ==
  IF i > Len(keys) THEN {st.placed}
  ELSE UNION {PlaceFrom(i + 1, keys, s, bnd, v) : s \in PlaceKey(keys[i], st, bnd, v)}

\* placeFixedInBand(fixedKeys, band, vp): the set of lists it can return.
placeFixedInBand(keys, bnd, v) ==
  PlaceFrom(1, keys, [placed |-> <<>>, occupied |-> <<>>], bnd, v)

-----------------------------------------------------------------------------
(* Mobile instances (behavior-driven) *)

\* const freq = r.jitter?.freqHz ?? { min: 6, max: 12 }, r a behavior or a
\* ChaserDef
FreqOf(r) == IF Has(r, "jitter") THEN Field(r.jitter, "freqHz", [min |-> 6, max |-> 12])
             ELSE [min |-> 6, max |-> 12]

\* jitterFreq: rand(freq.min, freq.max), in Hz, drawn at the low end of its
\* range
JitterFreq(freq) == freq.min

\* jitterPhaseX, jitterPhaseY: rand(0, Math.PI * 2), in quarter turns, drawn
\* at the low end of its range
JitterPhase == 0

\* resolveBehavior(ref): the behavior object in a one-element list, the empty
\* list for null / undefined.  Every reference of the tables is a string.
resolveBehavior(def) ==
  IF ~Has(def, "behavior") THEN <<>>
  ELSE IF Has(Behaviors, def.behavior) THEN <<Behaviors[def.behavior]>>
  ELSE <<>>

\* Mutant of SpawnX: the instance appears on the edge of the viewport.
SpawnXAtEdge(fromLeft, fontSize, v) == IF fromLeft THEN 0 ELSE v.w

\* const x = fromLeft ? -fontSize : vp.w + fontSize
SpawnX(fromLeft, fontSize, v) == IF fromLeft THEN 0 - fontSize ELSE v.w + fontSize

\* createMobileInstance(mobileKey, band, vp): the set of outcomes, each
\* [kind |-> "null"], [kind |-> "throw"] (reading behavior.speed of an
\* unresolved behavior raises a TypeError) or [kind |-> "inst", inst |-> it].
createMobileInstance(mobileKey, bnd, v) ==
  IF ~Has(MobileElements, mobileKey) THEN {[kind |-> "null"]}
  ELSE
    LET def      == MobileElements[mobileKey]
        resolved == resolveBehavior(def)
    IN  IF resolved = <<>> THEN {[kind |-> "throw"]}
        ELSE
          LET behavior == resolved[1]
              fontSize == Field(def, "fontSize", Px(32))
          IN  { [kind |-> "inst",
                 inst |-> [ type |-> "mobile", key |-> mobileKey, fontSize |-> fontSize,
                            x |-> SpawnX(fromLeft, fontSize, v),
                            y |-> y,
                            vx |-> (IF fromLeft THEN 1 ELSE 0 - 1) * baseSpeed,
                            pausedMs |-> 0,
                            behavior |-> behavior,
                            tMs |-> 0,
                            ttlMs |-> Field(behavior, "ttlMs", 15000),
                            jitterFreq |-> JitterFreq(FreqOf(behavior)),
                            jitterPhaseX |-> JitterPhase, jitterPhaseY |-> JitterPhase ]]
                : fromLeft \in RandomBelow(behavior.spawn.fromLeftP),
                  baseSpeed \in rand(behavior.speed.min, behavior.speed.max),
                  y \in rand(bnd.yTop, Max(bnd.yTop, bnd.yBottom - fontSize)) }

\* it.vx *= factor, the factor in percent
ScaleSpeed(vx, factorPct) == Sign(vx) * ((Abs(vx) * factorPct) \div 100)

\* Mutant of ClampSpeed: the scaled speed is kept as it is.
ClampSpeedMissing(vx, b) == vx

\* const s = clamp(Math.abs(it.vx), b.speed.min, b.speed.max);
\* it.vx = Math.sign(it.vx || 1) * s;
ClampSpeed(vx, b) ==
  Sign(IF vx = 0 THEN 1 ELSE vx) * clamp(Abs(vx), b.speed.min, b.speed.max)

\* pause lifecycle
PauseStep(it, dtMs) ==
  LET ev == it.behavior.events IN
  IF it.pausedMs > 0 THEN {[it EXCEPT !.pausedMs = @ - dtMs]}
  ELSE UNION { IF e THEN {[it EXCEPT !.pausedMs = d] : d \in rand(ev.pauseMs.min, ev.pauseMs.max)}
                    ELSE {it}
               : e \in eventThisFrame(Field(ev, "pausePPerSec", 0), dtMs) }

\* speed change events
SpeedChangeStep(it, dtMs) ==
  LET b  == it.behavior
      ev == b.events
  IN  IF it.pausedMs > 0 THEN {it}
      ELSE UNION {
             IF ~e THEN {it}
             ELSE UNION {
                    { [it EXCEPT !.vx = ClampSpeed(ScaleSpeed(it.vx, f), b)]
                      : f \in IF accel THEN rand(ev.accelFactor.min, ev.accelFactor.max)
                                       ELSE rand(ev.decelFactor.min, ev.decelFactor.max) }
                    : accel \in RandomBelow(Field(ev, "accelP", 50)) }
             : e \in eventThisFrame(Field(ev, "changeSpeedPPerSec", 0), dtMs) }

\* random U-turn
TurnBackStep(it, dtMs) ==
  IF it.pausedMs > 0 THEN {it}
  ELSE { IF e THEN [it EXCEPT !.vx = 0 - @] ELSE it
         : e \in eventThisFrame(Field(it.behavior.events, "turnBackPPerSec", 0), dtMs) }

\* Mutant of Integrate: a paused instance moves on.
IntegrateAlways(it, dtMs) == [it EXCEPT !.x = @ + it.vx * dtMs]

\* integrate
Integrate(it, dtMs) ==
  IF it.pausedMs <= 0 THEN [it EXCEPT !.x = @ + it.vx * dtMs] ELSE it

\* const margin = it.fontSize * (b.bounds?.marginFactor ?? 2.0)
Margin(it) == it.fontSize * it.behavior.bounds.marginFactor

\* Mutant of BoundsStep: no bounds policy.
BoundsStepIdle(it, v) == {it}

\* bounds policy: turn back or remove
BoundsStep(it, v) ==
  LET margin   == Margin(it)
      offLeft  == it.x < 0 - margin
      offRight == it.x > v.w + margin
  IN  IF offLeft \/ offRight
      THEN { IF turn THEN [it EXCEPT !.vx = 0 - @, !.x = clamp(@, 0 - margin, v.w + margin)]
                     ELSE [it EXCEPT !.ttlMs = 0]
             : turn \in RandomBelow(it.behavior.bounds.turnBackAtEdgeP) }
      ELSE {it}

\* Mutant of Age: the time-to-live of a paused instance stands still.
AgeUnlessPaused(it, dtMs) ==
  [it EXCEPT !.tMs = @ + dtMs, !.ttlMs = IF it.pausedMs > 0 THEN @ ELSE @ - dtMs]

\* it.tMs += dtMs; it.ttlMs -= dtMs
Age(it, dtMs) == [it EXCEPT !.tMs = @ + dtMs, !.ttlMs = @ - dtMs]

\* updateMobile(it, dtMs, vp) down to the integration: the set of instances
\* the bounds policy can find
BeforeBounds(it, dtMs) ==
  LET it0 == Age(it, dtMs) IN
  { Integrate(it3, dtMs)
    : it3 \in UNION { TurnBackStep(it2, dtMs)
                      : it2 \in UNION { SpeedChangeStep(it1, dtMs)
                                        : it1 \in PauseStep(it0, dtMs) } } }

\* updateMobile(it, dtMs, vp): the set of instances it can leave.
updateMobile(it, dtMs, v) == UNION { BoundsStep(m, v) : m \in BeforeBounds(it, dtMs) }

-----------------------------------------------------------------------------
(* Runtime Layer *)

\* Cap on the live instances of one layer: a spawn event is taken only while
\* the layer holds fewer.
MaxInstances == 1

\* new RuntimeLayer(layerDef)
RuntimeLayer(layerDef) ==
  LET base == [ name       |-> layerDef.name,
                mobileKeys |-> Field(layerDef, "mobiles", <<>>),
                fixedKeys  |-> Field(layerDef, "fixed", <<>>),
                instances  |-> <<>> ]
  IN  IF Has(layerDef, "height")
      THEN [ name |-> base.name, height |-> layerDef.height, mobileKeys |-> base.mobileKeys,
             fixedKeys |-> base.fixedKeys, instances |-> <<>> ]
      ELSE base

\* RuntimeLayer.init(band, vp)
LayerInit(L, bnd, v) ==
  {[L EXCEPT !.instances = p] : p \in placeFixedInBand(L.fixedKeys, bnd, v)}

NumMobiles(insts) == Cardinality({i \in 1..Len(insts) : insts[i].type = "mobile"})

\* Mutant of SkipUnknownMobile: the missing definition is dereferenced.
SkipUnknownMobileThrows(st) == [st EXCEPT !.thrown = TRUE]

\* const def = MobileElements[key]; if (!def) continue;
SkipUnknownMobile(st) == st

\* Mutant of Push: the new instance goes to the head of the list.
PushFront(insts, inst) == <<inst>> \o insts

\* this.instances.push(inst)
Push(insts, inst) == Append(insts, inst)

\* One iteration of the spawn loop of RuntimeLayer.update, from
\* st = [instances, thrown]: the set of states it can leave.
SpawnKey(key, st, dtMs, bnd, v) ==
  IF st.thrown THEN {st}
  ELSE IF ~Has(MobileElements, key) THEN {SkipUnknownMobile(st)}
  ELSE UNION {
         IF ~e \/ NumMobiles(st.instances) >= MaxInstances THEN {st}
         ELSE { IF r.kind = "throw" THEN [st EXCEPT !.thrown = TRUE]
                ELSE IF r.kind = "inst"
                     THEN [st EXCEPT !.instances = Push(@, r.inst)]
                     ELSE st
                : r \in createMobileInstance(key, bnd, v) }
         : e \in eventThisFrame(Field(MobileElements[key], "ratePerSec", 0), dtMs) }

RECURSIVE SpawnFrom(_, _, _, _, _, _)
SpawnFrom(i, keys, st, dtMs, bnd, v) ==
  IF i > Len(keys) THEN {st}
  ELSE UNION { SpawnFrom(i + 1, keys, s, dtMs, bnd, v)
               : s \in SpawnKey(keys[i], st, dtMs, bnd, v) }

\* The body of "for (const it of this.instances)" for one instance
UpdateInstance(it, dtMs, v) ==
  LET it1 == [it EXCEPT !.tMs = @ + dtMs] IN
  IF it1.type = "mobile" THEN updateMobile(it1, dtMs, v) ELSE {it1}

RECURSIVE UpdateFrom(_, _, _, _)
UpdateFrom(i, insts, dtMs, v) ==
  IF i > Len(insts) THEN {<<>>}
  ELSE { <<h>> \o t : h \in UpdateInstance(insts[i], dtMs, v),
                      t \in UpdateFrom(i + 1, insts, dtMs, v) }

\* Mutant of Keep: nothing is filtered out.
KeepAll(it) == TRUE

\* Mutant of Keep: only live mobiles pass the filter.
KeepLiveMobiles(it) == it.type = "mobile" /\ it.ttlMs > 0

\* this.instances.filter((it) => it.type === "fixed" || it.ttlMs > 0)
Keep(it) == it.type = "fixed" \/ it.ttlMs > 0

Cull(insts) == SelectSeq(insts, Keep)

\* What the filter of the cull pass drops, each as [key, ttlMs]
Expired(it) == ~Keep(it)

Dropped(insts) ==
  LET gone == SelectSeq(insts, Expired) IN
  [i \in 1..Len(gone) |-> [key |-> gone[i].key, ttlMs |-> Field(gone[i], "ttlMs", 0)]]

\* RuntimeLayer.update(dtMs, band, vp): the set of [layer, thrown, removed] it
\* can leave, removed telling what the cull pass dropped; a TypeError raised
\* while spawning leaves the instances pushed so far and skips the update and
\* cull passes.
LayerUpdate(L, dtMs, bnd, v) ==
  UNION { IF s.thrown
          THEN {[layer |-> [L EXCEPT !.instances = s.instances], thrown |-> TRUE,
                 removed |-> <<>>]}
          ELSE { [layer |-> [L EXCEPT !.instances = Cull(u)], thrown |-> FALSE,
                  removed |-> Dropped(u)]
                 : u \in UpdateFrom(1, s.instances, dtMs, v) }
          : s \in SpawnFrom(1, L.mobileKeys, [instances |-> L.instances, thrown |-> FALSE],
                            dtMs, bnd, v) }

-----------------------------------------------------------------------------
(* Player + Chaser *)

\* 4) LayerDef: the Layers table of the source
SourceLayers ==
  [ sky       |-> [name |-> "sky", height |-> Px(3), mobiles |-> <<"drone", "bird">>,
                   fixed |-> <<"cloud">>],
    mountains |-> [name |-> "mountains", height |-> Px(4), mobiles |-> <<>>,
                   fixed |-> <<"mountain">>],
    city      |-> [name |-> "city", height |-> Px(4), mobiles |-> <<"car", "pwalk">>,
                   fixed |-> <<"building", "factory", "tree">>],
    woods     |-> [name |-> "woods", height |-> Px(4), mobiles |-> <<>>,
                   fixed |-> <<"building", "factory", "tree">>],
    road      |-> [name |-> "road", height |-> Px(5), mobiles |-> <<"car", "bus">>,
                   fixed |-> <<"tree">>] ]

\* 5) PlayerDef
Players ==
  [ runner |-> [fontSize |-> Px(4)],
    ninja  |-> [fontSize |-> Px(4)],
    robot  |-> [fontSize |-> Px(4)] ]

\* 6) ChaserDef (optional in level)
Chasers ==
  [ ghost |-> [fontSize |-> Px(4), speed |-> 25, arriveRadius |-> Px(1),
               jitter |-> [ampX |-> 500, ampY |-> 500, freqHz |-> [min |-> 4, max |-> 9]]],
    trex  |-> [fontSize |-> Px(4), speed |-> 30, arriveRadius |-> Px(1),
               jitter |-> [ampX |-> 400, ampY |-> 400, freqHz |-> [min |-> 5, max |-> 10]]] ]

\* A level without chaser has chaser: null
NoKey == ""

\* createPlayer(playerKey, vp)
createPlayer(playerKey, v) ==
  [ type |-> "player", fontSize |-> Field(Players[playerKey], "fontSize", Px(34)),
    x |-> (v.w * 5) \div 10, y |-> (v.h * 66) \div 100, tMs |-> 0, vx |-> 0 ]

\* createChaser(chaserKey, vp)
createChaser(chaserKey, v) ==
  LET c == Chasers[chaserKey] IN
  [ type |-> "chaser", fontSize |-> Field(c, "fontSize", Px(34)),
    x |-> (v.w * 2) \div 10, y |-> (v.h * 66) \div 100,
    speed |-> Field(c, "speed", 150), arriveRadius |-> Field(c, "arriveRadius", Px(10)),
    tMs |-> 0, vx |-> 0,
    jitterFreq |-> JitterFreq(FreqOf(c)),
    jitterPhaseX |-> JitterPhase, jitterPhaseY |-> JitterPhase ]
  @@ (IF Has(c, "jitter") THEN [jitter |-> c.jitter] ELSE <<>>)

\* floor of the square root, by bisection on [lo, hi]
RECURSIVE IsqrtIn(_, _, _)
IsqrtIn(n, lo, hi) ==
  IF lo >= hi THEN lo
  ELSE LET mid == (lo + hi + 1) \div 2 IN
       IF mid * mid <= n THEN IsqrtIn(n, mid, hi) ELSE IsqrtIn(n, lo, mid - 1)

\* Math.hypot(dx, dy), exact on an axis and rounded down off it
Hypot(dx, dy) ==
  IF dy = 0 THEN Abs(dx)
  ELSE IF dx = 0 THEN Abs(dy)
  ELSE IsqrtIn(dx * dx + dy * dy, 0, Abs(dx) + Abs(dy))

\* (d / (dist || 1)) * step, rounded toward zero
Along(d, dist, step) ==
  Sign(d) * ((Abs(d) * step) \div (IF dist = 0 THEN 1 ELSE dist))

\* Mutant of Arrive: the arrived chaser keeps the vx of its last move.
ArriveCoasting(ch) == ch

\* The else branch of updateChaser: ch.vx = 0
Arrive(ch) == [ch EXCEPT !.vx = 0]

\* updateChaser(ch, player, dtMs)
updateChaser(ch, player, dtMs) ==
  LET dx   == player.x - ch.x
      dy   == player.y - ch.y
      dist == Hypot(dx, dy)
      step == ch.speed * dtMs
      ch1  == [ch EXCEPT !.tMs = @ + dtMs]
  IN  IF dist > ch.arriveRadius
      THEN [ch1 EXCEPT !.x = @ + Along(dx, dist, step),
                       !.y = @ + Along(dy, dist, step),
                       !.vx = Along(dx, dist, step)]
      ELSE Arrive(ch1)

-----------------------------------------------------------------------------
(* Runtime Level *)

\* [...levelDef.layers].sort((a, b) => a.z - b.z): a stable insertion sort
RECURSIVE InsertByZ(_, _)
InsertByZ(ref, sorted) ==
  IF sorted = <<>> THEN <<ref>>
  ELSE IF sorted[Len(sorted)].z <= ref.z THEN Append(sorted, ref)
  ELSE Append(InsertByZ(ref, SubSeq(sorted, 1, Len(sorted) - 1)), sorted[Len(sorted)])

RECURSIVE SortByZ(_)
SortByZ(refs) ==
  IF refs = <<>> THEN <<>>
  ELSE InsertByZ(refs[Len(refs)], SortByZ(SubSeq(refs, 1, Len(refs) - 1)))

\* new RuntimeLevel(levelDef)
RuntimeLevel(levelDef) ==
  [ name       |-> levelDef.name,
    durationMs |-> levelDef.durationMs,
    layerRefs  |-> SortByZ(levelDef.layers),
    playerKey  |-> levelDef.player,
    chaserKey  |-> Field(levelDef, "chaser", NoKey),
    elapsedMs  |-> 0,
    layers     |-> <<>>,
    bands      |-> <<>>,
    player     |-> <<>>,
    chaser     |-> <<>> ]

\* The Map this.bands after bands.set(name, band): a list of [name, band]
\* with one entry per name
BandsSet(bands, name, bnd) ==
  IF \E i \in 1..Len(bands) : bands[i].name = name
  THEN [i \in 1..Len(bands) |->
          IF bands[i].name = name THEN [name |-> name, band |-> bnd] ELSE bands[i]]
  ELSE Append(bands, [name |-> name, band |-> bnd])

\* this.bands.get(layer.name) ?? { yTop: 0, yBottom: vp.h }
BandsGet(bands, name, v) ==
  IF \E i \in 1..Len(bands) : bands[i].name = name
  THEN bands[CHOOSE i \in 1..Len(bands) : bands[i].name = name].band
  ELSE [yTop |-> 0, yBottom |-> v.h]

\* Mutant of BandTop: a band that runs out of room is not clipped.
BandTopUnclipped(yBottom, h) == yBottom - h

\* const yTop = Math.max(0, yBottom - h)
BandTop(yBottom, h) == Max(0, yBottom - h)

\* layer.height ?? Math.floor(vp.h / this.layers.length)
LayerHeight(L, v, n) == Field(L, "height", v.h \div n)

\* The loop "compute bands bottom-up" of RuntimeLevel.start from layer i on,
\* st = [layers, bands, yCursor]: the set of [layers, bands] it can leave.
RECURSIVE LayoutFrom(_, _, _)
LayoutFrom(i, st, v) ==
  IF i > Len(st.layers) THEN {[layers |-> st.layers, bands |-> st.bands]}
  ELSE LET L       == st.layers[i].layer
           h       == LayerHeight(L, v, Len(st.layers))
           yBottom == st.yCursor
           yTop    == BandTop(yBottom, h)
           bnd     == [yTop |-> yTop, yBottom |-> yBottom]
       IN  UNION { LayoutFrom(i + 1,
                              [ layers  |-> [st.layers EXCEPT ![i].layer = L1],
                                bands   |-> BandsSet(st.bands, L.name, bnd),
                                yCursor |-> yTop ], v)
                   : L1 \in LayerInit(L, bnd, v) }

\* RuntimeLevel.start(vp): the set of [level, thrown] it can leave.  A layer
\* key that Layers does not hold makes new RuntimeLayer(undefined) raise a
\* TypeError before this.layers is assigned.
LevelStart(lv, v) ==
  LET lv0 == [lv EXCEPT !.elapsedMs = 0] IN
  IF \E i \in 1..Len(lv.layerRefs) : ~Has(Layers, lv.layerRefs[i].layer)
  THEN {[level |-> lv0, thrown |-> TRUE]}
  ELSE LET resolved == [i \in 1..Len(lv.layerRefs) |->
                          [z |-> lv.layerRefs[i].z,
                           layer |-> RuntimeLayer(Layers[lv.layerRefs[i].layer])]]
       IN  { [level |-> [lv0 EXCEPT !.layers = r.layers,
                                    !.bands  = r.bands,
                                    !.player = <<createPlayer(lv.playerKey, v)>>,
                                    !.chaser = IF lv.chaserKey # NoKey
                                               THEN <<createChaser(lv.chaserKey, v)>>
                                               ELSE <<>>],
              thrown |-> FALSE]
             : r \in LayoutFrom(1, [layers |-> resolved, bands |-> <<>>,
                                    yCursor |-> v.h], v) }

\* The loop over this.layers of RuntimeLevel.update from layer i on,
\* st = [layers, thrown]: the set of states it can leave.
RECURSIVE LayersUpdateFrom(_, _, _, _, _)
LayersUpdateFrom(i, st, bands, dtMs, v) ==
  IF i > Len(st.layers) \/ st.thrown THEN {st}
  ELSE UNION { LayersUpdateFrom(i + 1,
                                [ layers |-> [st.layers EXCEPT ![i].layer = r.layer],
                                  thrown |-> r.thrown ], bands, dtMs, v)
               : r \in LayerUpdate(st.layers[i].layer, dtMs,
                                   BandsGet(bands, st.layers[i].layer.name, v), v) }

\* Mutant of Ended: the level also ends when the chaser has caught the player.
EndedOnCatch(lv) ==
  \/ lv.elapsedMs >= lv.durationMs
  \/ /\ lv.chaser # <<>>
     /\ Hypot(lv.player[1].x - lv.chaser[1].x, lv.player[1].y - lv.chaser[1].y)
           <= lv.chaser[1].arriveRadius

\* Mutant of Ended: the level ends only once the duration is exceeded.
EndedLate(lv) == lv.elapsedMs > lv.durationMs

\* return this.elapsedMs >= this.durationMs
Ended(lv) == lv.elapsedMs >= lv.durationMs

\* RuntimeLevel.update(dtMs, vp): the set of [level, ended, thrown] it can
\* leave; when a layer update raises, the player and the chaser are not
\* advanced and nothing is returned.
LevelUpdate(lv, dtMs, v) ==
  LET lv0 == [lv EXCEPT !.elapsedMs = @ + dtMs] IN
  { IF s.thrown
    THEN [level |-> [lv0 EXCEPT !.layers = s.layers], ended |-> FALSE, thrown |-> TRUE]
    ELSE [ level  |-> [lv0 EXCEPT !.layers = s.layers,
                                  !.player = <<[lv.player[1] EXCEPT !.tMs = @ + dtMs]>>,
                                  !.chaser = IF lv.chaser = <<>> THEN <<>>
                                             ELSE <<updateChaser(lv.chaser[1], lv.player[1], dtMs)>>],
           ended  |-> Ended(lv0),
           thrown |-> FALSE ]
    : s \in LayersUpdateFrom(1, [layers |-> lv.layers, thrown |-> FALSE], lv.bands, dtMs, v) }

-----------------------------------------------------------------------------
(* Drawing.  A drawn glyph is recorded as [glyph, x, y, fontSize, mirrored]: *)
(* the glyph, its anchor, and whether it is drawn under scale(-1, 1).        *)

\* drawEmoji(ctx, emoji, x, y, fontSize)
drawEmoji(glyph, x, y, fontSize) ==
  [glyph |-> glyph, x |-> x, y |-> y, fontSize |-> fontSize, mirrored |-> FALSE]

\* drawEmojiFacing(ctx, emoji, x, y, fontSize, facing)
drawEmojiFacing(glyph, x, y, fontSize, facing) ==
  IF facing # 1 THEN drawEmoji(glyph, x, y, fontSize)
  ELSE [drawEmoji(glyph, x, y, fontSize) EXCEPT !.mirrored = TRUE]

\* Math.sin of q quarter turns
SinQ(q) == <<0, 1, 0, 0 - 1>>[(q % 4) + 1]

\* Math.cos of q quarter turns
CosQ(q) == SinQ(q + 1)

\* t * freqHz * Math.PI * 2 + phase with t = tMs / 1000, in quarter turns:
\* the turns made in tMs ms at freqHz, rounded to the nearest quarter, and the
\* phase
QuarterTurns(tMs, freqHz, phase) == (4 * tMs * freqHz + 500) \div 1000 + phase

\* jitterOffset(tMs, jitter, freqHz, phaseX, phaseY), jitter in a list of one
\* or none: no offset without jitter, otherwise the point of the two
\* sinusoids at tMs, in milli-pixels
jitterOffset(tMs, jitter, freqHz, phaseX, phaseY) ==
  IF jitter = <<>> THEN [ox |-> 0, oy |-> 0]
  ELSE [ ox |-> SinQ(QuarterTurns(tMs, freqHz, phaseX)) * Field(jitter[1], "ampX", 0),
         oy |-> CosQ(QuarterTurns(tMs, freqHz, phaseY)) * Field(jitter[1], "ampY", 0) ]

\* it.behavior?.jitter, ch.jitter
JitterOf(r) == IF Has(r, "jitter") THEN <<r.jitter>> ELSE <<>>

\* Mutant of Facing: an instance at rest faces right.
FacingAtRestRight(vx) == IF vx >= 0 THEN 1 ELSE 0 - 1

\* const facing = it.vx > 0 ? 1 : -1
Facing(vx) == IF vx > 0 THEN 1 ELSE 0 - 1

\* The offset drawMobile computes for it
MobileJitter(it) ==
  jitterOffset(it.tMs, JitterOf(it.behavior), it.jitterFreq, it.jitterPhaseX, it.jitterPhaseY)

\* The offset drawChaser computes for ch
ChaserJitter(ch) ==
  jitterOffset(ch.tMs, JitterOf(ch), ch.jitterFreq, ch.jitterPhaseX, ch.jitterPhaseY)

\* drawMobile(ctx, it): what it draws
drawMobile(it) ==
  LET o == MobileJitter(it) IN
  drawEmojiFacing(it.key, it.x + o.ox, it.y + o.oy, it.fontSize, Facing(it.vx))

\* drawPlayer(ctx, player)
drawPlayer(player) ==
  drawEmojiFacing(player.type, player.x, player.y, player.fontSize, Facing(player.vx))

\* drawChaser(ctx, ch): what it draws
drawChaser(ch) ==
  LET o == ChaserJitter(ch) IN
  drawEmojiFacing(ch.type, ch.x + o.ox, ch.y + o.oy, ch.fontSize, Facing(ch.vx))

\* RuntimeLayer.draw(ctx) from instance i on: what it draws
RECURSIVE DrawFrom(_, _)
DrawFrom(i, insts) ==
  IF i > Len(insts) THEN <<>>
  ELSE LET it == insts[i] IN
       << IF it.type = "fixed" THEN drawEmoji(it.key, it.x, it.y, it.fontSize)
          ELSE drawMobile(it) >> \o DrawFrom(i + 1, insts)

\* RuntimeLayer.draw(ctx): what it draws
LayerDraw(L) == DrawFrom(1, L.instances)

\* The loop "for (const { layer } of this.layers) layer.draw(ctx)" from i on
RECURSIVE LayersDrawFrom(_, _)
LayersDrawFrom(i, layers) ==
  IF i > Len(layers) THEN <<>>
  ELSE LayerDraw(layers[i].layer) \o LayersDrawFrom(i + 1, layers)

\* RuntimeLevel.draw(ctx, vp): the layers, then the player and the chaser
LevelDraw(lv) ==
  LayersDrawFrom(1, lv.layers)
  \o (IF lv.player = <<>> THEN <<>> ELSE <<drawPlayer(lv.player[1])>>)
  \o (IF lv.chaser = <<>> THEN <<>> ELSE <<drawChaser(lv.chaser[1])>>)

\* Mutant of Drawn: the jitter offset is stored into the object drawn.
DrawnShifted(e, o) == [e EXCEPT !.x = @ + o.ox, !.y = @ + o.oy]

\* What drawMobile and drawChaser leave in the object e they draw with the
\* offset o: ox and oy are added in the arguments of drawEmojiFacing, and
\* nothing is assigned to e
Drawn(e, o) == e

\* The instances RuntimeLayer.draw leaves, from instance i on
RECURSIVE AfterDrawFrom(_, _)
AfterDrawFrom(i, insts) ==
  IF i > Len(insts) THEN <<>>
  ELSE LET it == insts[i] IN
       << IF it.type = "fixed" THEN it ELSE Drawn(it, MobileJitter(it)) >>
       \o AfterDrawFrom(i + 1, insts)

\* The runtime layer RuntimeLayer.draw leaves
LayerAfterDraw(L) == [L EXCEPT !.instances = AfterDrawFrom(1, L.instances)]

\* The layers RuntimeLevel.draw leaves
LayersAfterDraw(layers) ==
  [i \in 1..Len(layers) |-> [layers[i] EXCEPT !.layer = LayerAfterDraw(layers[i].layer)]]

\* The level RuntimeLevel.draw leaves: drawPlayer computes no offset
LevelAfterDraw(lv) ==
  [lv EXCEPT !.layers = LayersAfterDraw(lv.layers),
             !.chaser = IF lv.chaser = <<>> THEN <<>>
                        ELSE <<Drawn(lv.chaser[1], ChaserJitter(lv.chaser[1]))>>]

-----------------------------------------------------------------------------
(* Inputs of the component-level specifications *)

\* Canvas sizes the host can report
Viewports == {[w |-> Px(8), h |-> Px(10)], [w |-> Px(12), h |-> Px(10)]}

\* Bands: one shorter than a glyph, one with room above and below it
Bands == {[yTop |-> 0, yBottom |-> Px(1)], [yTop |-> Px(2), yBottom |-> Px(6)]}

\* Frame deltas handed to update
FrameDeltas == {0, 40}

\* Number of frames a behaviour runs for
MaxFrames == 3

NoLayer == [name |-> "", mobileKeys |-> <<>>, fixedKeys |-> <<>>, instances |-> <<>>]

\* Game.level = null
NoLevel == [name |-> ""]

\* Game._raf = null
NoRaf == 0

\* Game._lastTs = null
NoTs == -1

\* The step-scroll page once its script has run: let offsetX = 0, moving =
\* false; no animation callback waits.  call and moves keep the books of the
\* accepted moveScene calls: the direction and the offsetX found by the last
\* one, the anim steps run since, and their number.
SceneIdle ==
  [ offsetX |-> 0, moving |-> FALSE, anims |-> <<>>,
    call |-> [dir |-> 0, from |-> 0, steps |-> 0], moves |-> 0 ]

\* The controller as its constructor leaves it, nothing requested yet
GameIdle ==
  /\ state = "menu"
  /\ levelIndex = 0
  /\ raf = NoRaf
  /\ lastTs = NoTs
  /\ pending = {}
  /\ nextId = 1
  /\ clock = 0
  /\ stopMark = 0
  /\ fired = 0
  /\ prev = [state |-> "menu", levelIndex |-> 0]
  /\ scene = SceneIdle

NoBand == [yTop |-> 0, yBottom |-> 0]

-----------------------------------------------------------------------------
(* placeFixedInBand called on its own *)

MaxKeys == 3

PlaceKeys == {"factory", "office", "dtree", "tree"}

KeyLists == UNION {[1..n -> PlaceKeys] : n \in 0..MaxKeys}

\* FixedElements tables: the source's, and one whose "factory" is always
\* selected and wider than every viewport.
FixedTables ==
  { SourceFixedElements,
    [SourceFixedElements EXCEPT !.factory.probability = 100, !.factory.widthPx = Px(16)] }

PlaceInit ==
  /\ FixedElements \in FixedTables
  /\ MobileElements = SourceMobileElements
  /\ Layers = SourceLayers
  /\ vp \in Viewports
  /\ fixedKeys \in KeyLists
  /\ band \in Bands
  /\ placed = <<>>
  /\ layer = NoLayer
  /\ level = NoLevel
  /\ ended = FALSE
  /\ drawn = <<>>
  /\ removed = <<>>
  /\ lastDt = 0
  /\ frame = 0
  /\ op = "none"
  /\ thrown = FALSE
  /\ GameIdle

PlaceCall ==
  /\ op = "none"
  /\ placed' \in placeFixedInBand(fixedKeys, band, vp)
  /\ op' = "placeFixedInBand"
  /\ UNCHANGED <<FixedElements, MobileElements, Layers, vp, fixedKeys, band, layer, level, ended, lastDt, frame, thrown>>
  /\ UNCHANGED gameVars
  /\ UNCHANGED removed
  /\ UNCHANGED drawn

PlaceNext == PlaceCall

SpecPlace == PlaceInit /\ [][PlaceNext]_vars

\* The footprint interval [x, x + width) of a placed fixed instance
Footprint(inst) ==
  LET def == FixedElements[inst.key] IN
  [x0 |-> inst.x, x1 |-> inst.x + Field(def, "widthPx", (inst.fontSize * 12) \div 10)]

Stackable(inst) == Field(FixedElements[inst.key], "stackable", FALSE)

Disjoint(a, b) == a.x1 <= b.x0 \/ b.x1 <= a.x0

\* C8: in the list placeFixedInBand returns for one band, any two distinct
\* non-stackable instances have footprint intervals [x, x + width) that do
\* not overlap.
C8_NonStackableDisjoint ==
  \A i, j \in 1..Len(placed) :
     (i < j /\ ~Stackable(placed[i]) /\ ~Stackable(placed[j]))
        => Disjoint(Footprint(placed[i]), Footprint(placed[j]))

\* C8 witness: two non-stackable instances were placed in one band, and a
\* stackable one overlaps another instance.
W_C8_SeveralPlaced ==
  /\ op = "placeFixedInBand"
  /\ Cardinality({i \in 1..Len(placed) : ~Stackable(placed[i])}) >= 2
  /\ \E i, j \in 1..Len(placed) :
        /\ i # j
        /\ Stackable(placed[i])
        /\ ~Disjoint(Footprint(placed[i]), Footprint(placed[j]))

\* The case of C9: a single non-stackable type of placement probability 1.0
\* whose footprint is wider than the viewport.
C9Case ==
  /\ op = "placeFixedInBand"
  /\ Len(fixedKeys) = 1
  /\ Has(FixedElements, fixedKeys[1])
  /\ FixedElements[fixedKeys[1]].probability = 100
  /\ ~FixedElements[fixedKeys[1]].stackable
  /\ FixedElements[fixedKeys[1]].widthPx > vp.w

\* C9 as claimed: such a call fails to place the type and returns an empty
\* list.
CE_C9_WideTypeOmitted == C9Case => placed = <<>>

\* C9 amended: such a call places the type on its first attempt at x = 0
\* (the sampling range collapses to [0, 0] and nothing is occupied yet) and
\* returns a list of that one instance.
C9_WideTypePlacedAtZero ==
  C9Case => /\ Len(placed) = 1
            /\ placed[1].key = fixedKeys[1]
            /\ placed[1].x = 0

W_C9_WideTypeCall == C9Case /\ placed # <<>>

-----------------------------------------------------------------------------
(* A RuntimeLayer driven on its own: constructed from a layer definition,   *)
(* initialised once, then updated frame after frame with the band it was    *)
(* initialised with and the viewport of the frame.                          *)

\* Layer definitions: three of the source's, and one that lists a mobile key
\* and a fixed key its tables do not hold.
LayerInputs ==
  { SourceLayers.sky, SourceLayers.city, SourceLayers.road,
    [name |-> "depot", height |-> Px(4), mobiles |-> <<"tram", "car">>,
     fixed |-> <<"office", "kiosk", "factory">>] }

\* The band handed to the layer: as tall as the fixed glyphs
LayerBands == {[yTop |-> Px(2), yBottom |-> Px(4)]}

\* [layer definition, MobileElements table] pairs
LayerCases ==
  {[def |-> d, table |-> SourceMobileElements] : d \in LayerInputs}
  \cup {[def |-> SourceLayers.sky, table |-> UnresolvedMobileElements]}

LayerSpecInit ==
  /\ FixedElements = SourceFixedElements
  /\ \E c \in LayerCases :
        /\ MobileElements = c.table
        /\ Layers = SourceLayers
        /\ layer = RuntimeLayer(c.def)
  /\ vp \in Viewports
  /\ fixedKeys = <<>>
  /\ band \in LayerBands
  /\ placed = <<>>
  /\ level = NoLevel
  /\ ended = FALSE
  /\ drawn = <<>>
  /\ removed = <<>>
  /\ lastDt = 0
  /\ frame = 0
  /\ op = "new"
  /\ thrown = FALSE
  /\ GameIdle

LayerInitStep ==
  /\ op = "new"
  /\ layer' \in LayerInit(layer, band, vp)
  /\ op' = "init"
  /\ UNCHANGED <<FixedElements, MobileElements, Layers, vp, fixedKeys, band, placed, level, ended,
                 lastDt, frame, thrown>>
  /\ UNCHANGED gameVars
  /\ UNCHANGED removed
  /\ UNCHANGED drawn

LayerUpdateStep ==
  /\ op \in {"init", "update", "draw"}
  /\ ~thrown
  /\ frame < MaxFrames
  /\ \E dt \in FrameDeltas :
       \E r \in LayerUpdate(layer, dt, band, vp) :
          /\ layer' = r.layer
          /\ thrown' = r.thrown
          /\ removed' = r.removed
          /\ lastDt' = dt
  /\ frame' = frame + 1
  /\ op' = "update"
  /\ UNCHANGED <<FixedElements, MobileElements, Layers, vp, fixedKeys, band, placed, level, ended>>
  /\ UNCHANGED gameVars
  /\ drawn' = <<>>

LayerDrawStep ==
  /\ op = "update"
  /\ ~thrown
  /\ drawn' = LayerDraw(layer)
  /\ layer' = LayerAfterDraw(layer)
  /\ op' = "draw"
  /\ UNCHANGED <<FixedElements, MobileElements, Layers, vp, fixedKeys, band, placed, level,
                 ended, lastDt, frame, thrown>>
  /\ UNCHANGED gameVars
  /\ UNCHANGED removed

LayerNext == LayerInitStep \/ LayerUpdateStep \/ LayerDrawStep

SpecLayer == LayerSpecInit /\ [][LayerNext]_vars

\* C5: a spawn event for a mobile definition whose behavior reference does
\* not resolve is silently skipped: no error is raised.
CE_C5_UnresolvedBehaviorSkipped ==
  (\E i \in 1..Len(layer.mobileKeys) :
      /\ Has(MobileElements, layer.mobileKeys[i])
      /\ resolveBehavior(MobileElements[layer.mobileKeys[i]]) = <<>>)
  => ~thrown

KnownFixed(key) == Has(FixedElements, key)

KnownMobile(key) == Has(MobileElements, key)

\* What an update can leave, without the layer's key lists
UpdateOutcomes(L, dt) ==
  {<<r.layer.instances, r.thrown>> : r \in LayerUpdate(L, dt, band, vp)}

\* C7: a fixed or mobile type key that is absent from its element table is
\* skipped: nothing is placed or spawned for it, and init and update behave
\* exactly as if the key were not listed.
C7_UnknownKeysSkipped ==
  /\ \A i \in 1..Len(layer.instances) :
        IF layer.instances[i].type = "fixed"
        THEN KnownFixed(layer.instances[i].key)
        ELSE KnownMobile(layer.instances[i].key)
  /\ op = "new" =>
       placeFixedInBand(layer.fixedKeys, band, vp)
         = placeFixedInBand(SelectSeq(layer.fixedKeys, KnownFixed), band, vp)
  /\ (~thrown /\ op # "new" /\ frame < MaxFrames /\ \E i \in 1..Len(layer.mobileKeys) : ~KnownMobile(layer.mobileKeys[i])) =>
       \A dt \in FrameDeltas :
          UpdateOutcomes(layer, dt)
            = UpdateOutcomes([layer EXCEPT !.mobileKeys = SelectSeq(@, KnownMobile)], dt)

\* C7 witness: a layer that lists an unknown fixed key and an unknown mobile
\* key has been updated and holds a fixed and a mobile instance of its other
\* keys.
W_C7_OtherKeysProcessed ==
  /\ op = "update"
  /\ \E i \in 1..Len(layer.fixedKeys) : ~KnownFixed(layer.fixedKeys[i])
  /\ \E i \in 1..Len(layer.mobileKeys) : ~KnownMobile(layer.mobileKeys[i])
  /\ \E i, j \in 1..Len(layer.instances) :
        layer.instances[i].type = "fixed" /\ layer.instances[j].type = "mobile"

\* C10: the magnitude of a mobile instance's horizontal velocity stays within
\* [speed.min, speed.max] of its behavior profile.
C10_SpeedWithinRange ==
  \A i \in 1..Len(layer.instances) :
     LET it == layer.instances[i] IN
     it.type = "mobile" =>
        /\ it.behavior.speed.min <= Abs(it.vx)
        /\ Abs(it.vx) <= it.behavior.speed.max

\* C10 witness: an instance that has been advanced and whose speed is none
\* of the speeds a spawn draws: a speed-change event has fired.
W_C10_ChangedSpeed ==
  \E i \in 1..Len(layer.instances) :
     LET it == layer.instances[i] IN
     /\ it.type = "mobile"
     /\ it.tMs > 40
     /\ Abs(it.vx) \notin rand(it.behavior.speed.min, it.behavior.speed.max)

\* The mobile instances a layer holds
Mobiles(L) == {L.instances[i] : i \in {j \in 1..Len(L.instances) : L.instances[j].type = "mobile"}}

\* C15: for every mobile instance a layer holds, after each update its
\* time-to-live and its pause-remaining are both non-negative.
CE_C15_TtlAndPauseNonNegative ==
  \A it \in Mobiles(layer) : it.ttlMs >= 0 /\ it.pausedMs >= 0

\* it is what one update makes of the held instance old: same key and row,
\* one frame older
Continues(it, old, dtMs) ==
  /\ it.key = old.key
  /\ it.y = old.y
  /\ it.ttlMs = old.ttlMs - dtMs
  /\ it.tMs > old.tMs \/ dtMs = 0

\* it was spawned by the update that has just advanced it once
Fresh(it, dtMs) == it.ttlMs = it.behavior.ttlMs - dtMs

\* C16: after every RuntimeLayer.update no mobile instance with time-to-live
\* <= 0 remains in the instance list, whether it expired by age or by the
\* boundary policy; what the update dropped had time-to-live <= 0; every
\* mobile the update leaves was held before it or spawned by it, and a draw
\* draws the held instances and nothing else, each at its position (a mobile
\* at its position plus its jitter offset).
C16_ExpiredInstancesRemoved ==
  [][ /\ \A it \in Mobiles(layer') : it.ttlMs > 0
      /\ op' = "update" =>
           /\ \A i \in 1..Len(removed') : removed'[i].ttlMs <= 0
           /\ \A it \in Mobiles(layer') :
                 \/ \E old \in Mobiles(layer) : Continues(it, old, lastDt')
                 \/ Fresh(it, lastDt')
      /\ op' = "draw" =>
           /\ Len(drawn') = Len(layer'.instances)
           /\ \A i \in 1..Len(drawn') :
                 LET it == layer'.instances[i]
                     o == IF it.type = "fixed" THEN [ox |-> 0, oy |-> 0] ELSE MobileJitter(it)
                 IN /\ drawn'[i].glyph = it.key
                    /\ drawn'[i].x = it.x + o.ox
                    /\ drawn'[i].y = it.y + o.oy
    ]_vars

\* C16 witness: a draw after the update that dropped the layer's only mobile;
\* the props alone have been drawn.
W_C16_DrawAfterRemoval ==
  /\ op = "draw"
  /\ removed # <<>>
  /\ Mobiles(layer) = {}
  /\ drawn # <<>>

\* Key, position and size of the fixed instances of a layer, in list order
FixedOf(L) ==
  LET fs == SelectSeq(L.instances, LAMBDA it : it.type = "fixed") IN
  [i \in 1..Len(fs) |-> [key |-> fs[i].key, x |-> fs[i].x, y |-> fs[i].y,
                         fontSize |-> fs[i].fontSize]]

\* C17: the fixed instances RuntimeLayer.init created are never removed,
\* added to or moved by RuntimeLayer.update: their list, and the key
\* (glyph), position and size of each, are unchanged by every update.
C17_FixedInstancesUnchanged ==
  [][op' \in {"update", "draw"} => FixedOf(layer') = FixedOf(layer)]_vars

\* C17 witness: the last of several updates has dropped a mobile and the
\* layer still holds the props init placed.
W_C17_PropsOutliveMobile ==
  /\ op = "update"
  /\ frame = MaxFrames
  /\ removed # <<>>
  /\ FixedOf(layer) # <<>>
  /\ \A i \in 1..Len(layer.instances) : layer.instances[i].tMs > 0

-----------------------------------------------------------------------------
(* A RuntimeLevel driven on its own: constructed from a level definition,   *)
(* started, then updated with deltas of the caller's choice.                *)

\* The Layers table of the source, and two prop-less layers whose
\* definitions give no height.
LevelLayers ==
  SourceLayers @@
  [ mist |-> [name |-> "mist", mobiles |-> <<>>, fixed |-> <<>>],
    haze |-> [name |-> "haze", mobiles |-> <<>>, fixed |-> <<>>] ]

\* Level definitions: a long level over a prop-only layer with a chaser, a
\* short one over a populated layer, one that lists a layer key that Layers
\* does not hold, and one that mixes a layer of given height with layers of
\* none.
LevelInputs ==
  { [ name |-> "Sprint", durationMs |-> 1000, player |-> "runner", chaser |-> "ghost",
      layers |-> <<[layer |-> "mountains", z |-> 10]>> ],
    [ name |-> "Level 2", durationMs |-> 40, player |-> "ninja", chaser |-> "ghost",
      layers |-> <<[layer |-> "road", z |-> 30], [layer |-> "mountains", z |-> 10]>> ],
    [ name |-> "Harbor", durationMs |-> 80, player |-> "robot",
      layers |-> <<[layer |-> "harbor", z |-> 10], [layer |-> "road", z |-> 30]>> ],
    [ name |-> "Mixed", durationMs |-> 40, player |-> "runner",
      layers |-> <<[layer |-> "mountains", z |-> 10], [layer |-> "mist", z |-> 20],
                   [layer |-> "haze", z |-> 30]>> ] }

\* Canvas sizes of the level's host: those of Viewports and a lower one
LevelViewports == Viewports \cup {[w |-> Px(8), h |-> Px(6)]}

\* Deltas handed to RuntimeLevel.update by a direct caller
LevelDeltas == {0, 40, 100}

\* Number of updates of one level
MaxLevelFrames == 11

LevelSpecInit ==
  /\ FixedElements = SourceFixedElements
  /\ MobileElements = SourceMobileElements
  /\ Layers = LevelLayers
  /\ vp \in LevelViewports
  /\ fixedKeys = <<>>
  /\ band = NoBand
  /\ placed = <<>>
  /\ layer = NoLayer
  /\ level \in {RuntimeLevel(d) : d \in LevelInputs}
  /\ ended = FALSE
  /\ drawn = <<>>
  /\ removed = <<>>
  /\ lastDt = 0
  /\ frame = 0
  /\ op = "new"
  /\ thrown = FALSE
  /\ GameIdle

LevelStartStep ==
  /\ op = "new"
  /\ \E r \in LevelStart(level, vp) :
        /\ level' = r.level
        /\ thrown' = r.thrown
  /\ op' = "start"
  /\ UNCHANGED <<FixedElements, MobileElements, Layers, vp, fixedKeys, band, placed, layer, ended,
                 lastDt, frame>>
  /\ UNCHANGED gameVars
  /\ UNCHANGED removed
  /\ UNCHANGED drawn

LevelUpdateStep ==
  /\ op \in {"start", "update", "resize", "draw"}
  /\ ~thrown
  /\ frame < MaxLevelFrames
  /\ level.elapsedMs <= level.durationMs
  /\ \E dt \in LevelDeltas :
       \E r \in LevelUpdate(level, dt, vp) :
          /\ level' = r.level
          /\ ended' = r.ended
          /\ thrown' = r.thrown
          /\ lastDt' = dt
  /\ frame' = frame + 1
  /\ op' = "update"
  /\ UNCHANGED <<FixedElements, MobileElements, Layers, vp, fixedKeys, band, placed, layer>>
  /\ UNCHANGED gameVars
  /\ UNCHANGED removed
  /\ drawn' = <<>>

\* Last frame after which the host resizes the canvas
MaxResizeFrame == 1

\* The host resizes the canvas between two frames
LevelResize ==
  /\ op \in {"start", "update"}
  /\ ~thrown
  /\ frame <= MaxResizeFrame
  /\ vp' \in LevelViewports \ {vp}
  /\ op' = "resize"
  /\ UNCHANGED <<FixedElements, MobileElements, Layers, fixedKeys, band, placed, layer, level,
                 ended, lastDt, frame, thrown>>
  /\ UNCHANGED gameVars
  /\ UNCHANGED removed
  /\ UNCHANGED drawn

\* RuntimeLevel.draw(ctx, vp), called by tick after each update
LevelDrawStep ==
  /\ op = "update"
  /\ ~thrown
  /\ drawn' = LevelDraw(level)
  /\ level' = LevelAfterDraw(level)
  /\ op' = "draw"
  /\ UNCHANGED <<FixedElements, MobileElements, Layers, vp, fixedKeys, band, placed, layer,
                 ended, lastDt, frame, thrown>>
  /\ UNCHANGED gameVars
  /\ UNCHANGED removed

LevelNext == LevelStartStep \/ LevelUpdateStep \/ LevelResize \/ LevelDrawStep

SpecLevel == LevelSpecInit /\ [][LevelNext]_vars

\* C1: RuntimeLevel.update returns "ended" exactly when the accumulated
\* elapsed time, this dt included, has reached the configured duration; a
\* level of 1000 ms fed updates of 100 ms reports ended on the tenth update
\* and on none of the first nine.
C1_EndedIffDurationReached ==
  (op = "update" /\ ~thrown) =>
     /\ ended <=> level.elapsedMs >= level.durationMs
     /\ (level.durationMs = 1000 /\ level.elapsedMs = 100 * frame) => (ended <=> frame >= 10)

\* C1 witness: the tenth update of 100 ms of the 1000 ms level has returned
\* "ended" while its chaser is still on its way to the player.
W_C1_TenthUpdate ==
  /\ op = "update"
  /\ level.durationMs = 1000
  /\ frame = 10
  /\ level.elapsedMs = 1000
  /\ ended
  /\ level.chaser # <<>>
  /\ level.chaser[1].vx # 0

\* C6: a level definition that lists a layer key not present in the layer
\* table starts without raising an error, the remaining layers, the player
\* and the chaser being created normally.
CE_C6_UnknownLayerSkipped ==
  op = "start" =>
     /\ ~thrown
     /\ level.player # <<>>
     /\ \A i \in 1..Len(level.layerRefs) :
           Has(Layers, level.layerRefs[i].layer) =>
              \E j \in 1..Len(level.layers) :
                 level.layers[j].layer.name = level.layerRefs[i].layer

\* The band the level holds for its i-th layer, in ascending z-order
LevelBand(i) == BandsGet(level.bands, level.layers[i].layer.name, vp)

\* C12: after RuntimeLevel.start the bands of the layers, in ascending
\* z-order, tile the viewport bottom-up: the first band's bottom is the
\* viewport height, each next band's bottom is the previous band's top, every
\* band has 0 <= top <= bottom (a band that runs out of room is clipped at 0)
\* and no band overlaps the interior of another.
C12_BandsTileBottomUp ==
  (op = "start" /\ ~thrown) =>
     LET n == Len(level.layers) IN
     /\ n = Len(level.layerRefs)
     /\ \A i \in 1..n : level.layers[i].layer.name = Layers[level.layerRefs[i].layer].name
     /\ \A i \in 1..(n - 1) : level.layers[i].z <= level.layers[i + 1].z
     /\ LevelBand(1).yBottom = vp.h
     /\ \A i \in 1..(n - 1) : LevelBand(i + 1).yBottom = LevelBand(i).yTop
     /\ \A i \in 1..n : 0 <= LevelBand(i).yTop /\ LevelBand(i).yTop <= LevelBand(i).yBottom
     /\ \A i, j \in 1..n :
           i # j => \/ LevelBand(i).yBottom <= LevelBand(j).yTop
                    \/ LevelBand(j).yBottom <= LevelBand(i).yTop

\* C12 witness: a level whose definition lists its layers out of z-order has
\* been started in a viewport too low for both; the upper band is clipped.
W_C12_LastBandClipped ==
  /\ op = "start"
  /\ ~thrown
  /\ level.name = "Level 2"
  /\ level.layers[2].layer.name = "road"
  /\ LevelBand(2).yTop = 0
  /\ LevelBand(2).yBottom - LevelBand(2).yTop < level.layers[2].layer.height

\* C13: a layer whose definition gives no height claims an equal share of the
\* height still remaining above the bands already assigned (checked for the
\* layers after which only layers of no given height follow).
CE_C13_ShareOfRemainingHeight ==
  (op = "start" /\ ~thrown) =>
     LET n == Len(level.layers) IN
     \A i \in 1..n :
        (\A j \in i..n : ~Has(level.layers[j].layer, "height")) =>
           LevelBand(i).yBottom - LevelBand(i).yTop = LevelBand(i).yBottom \div (n - i + 1)

\* C14: the bands RuntimeLevel.update uses in a frame are those derived from
\* that frame's viewport, also when the viewport has changed since the level
\* was started.
CE_C14_BandsFollowViewport ==
  (op = "update" /\ ~thrown) =>
     level.bands \in { r.bands : r \in LayoutFrom(1, [layers |-> level.layers, bands |-> <<>>,
                                                     yCursor |-> vp.h], vp) }

\* What RuntimeLevel.draw walks, in drawing order: the instances of the layers
\* from layer i on, then the player and the chaser
RECURSIVE InstancesFrom(_, _)
InstancesFrom(i, layers) ==
  IF i > Len(layers) THEN <<>>
  ELSE layers[i].layer.instances \o InstancesFrom(i + 1, layers)

Entities(lv) == InstancesFrom(1, lv.layers) \o lv.player \o lv.chaser

\* A mobile instance, a player or a chaser: what is drawn through
\* drawEmojiFacing
Facer(e) == e.type # "fixed"

\* C18: each mobile instance, the player and the chaser is drawn mirrored if
\* and only if its horizontal velocity vx is strictly positive when the frame
\* is drawn; with zero or negative vx it is drawn unmirrored.
C18_MirroredIffMovingRight ==
  op = "draw" =>
     LET es == Entities(level) IN
     /\ Len(drawn) = Len(es)
     /\ \A i \in 1..Len(es) :
           Facer(es[i]) => (drawn[i].mirrored <=> es[i].vx > 0)

\* C18 witness: one frame draws a chaser moving right mirrored, a mobile
\* moving left unmirrored and the player, at rest, unmirrored.
W_C18_BothFacingsDrawn ==
  /\ op = "draw"
  /\ LET es == Entities(level) IN
     /\ Len(drawn) = Len(es)
     /\ \E i \in 1..Len(es) : es[i].type = "mobile" /\ es[i].vx < 0 /\ ~drawn[i].mirrored
     /\ \E i \in 1..Len(es) : es[i].type = "player" /\ es[i].vx = 0 /\ ~drawn[i].mirrored
     /\ \E i \in 1..Len(es) : es[i].type = "chaser" /\ es[i].vx > 0 /\ drawn[i].mirrored

-----------------------------------------------------------------------------
(* updateChaser called on its own, frame after frame, for chasers of several *)
(* speeds and arrival radii                                                  *)

\* speed of the ChaserDef, in px/s; 150 is the default of createChaser
ChaseSpeeds == {25, 30, 150}

\* arriveRadius of the ChaserDef
ChaseRadii == {Px(1), Px(2)}

\* How far above the player's row the chaser starts
ChaseRises == {0, Px(1)}

\* dtMs of a frame, within the clamp of tick
ChaseDeltas == {0, 16, 40}

MaxChaseFrames == 4

\* The chaser createChaser makes of a ChaserDef with the given speed and
\* arrival radius, set on the given row
ChaserOf(k, v, sp, rad, rise) ==
  [createChaser(k, v) EXCEPT !.speed = sp, !.arriveRadius = rad, !.y = @ - rise]

ChaseInit ==
  /\ FixedElements = SourceFixedElements
  /\ MobileElements = SourceMobileElements
  /\ Layers = SourceLayers
  /\ vp \in Viewports
  /\ fixedKeys = <<>>
  /\ band = NoBand
  /\ placed = <<>>
  /\ layer = NoLayer
  /\ level \in { [name |-> "chase", player |-> <<createPlayer("ninja", vp)>>,
                   chaser |-> <<ChaserOf("ghost", vp, sp, rad, rise)>>]
                 : sp \in ChaseSpeeds, rad \in ChaseRadii, rise \in ChaseRises }
  /\ ended = FALSE
  /\ drawn = <<>>
  /\ removed = <<>>
  /\ lastDt = 0
  /\ frame = 0
  /\ op = "new"
  /\ thrown = FALSE
  /\ GameIdle

\* One frame: updateChaser(this.chaser, this.player, dtMs)
ChaseStep ==
  /\ frame < MaxChaseFrames
  /\ \E dt \in ChaseDeltas :
        /\ level' = [level EXCEPT
                       !.chaser = <<updateChaser(level.chaser[1], level.player[1], dt)>>]
        /\ lastDt' = dt
  /\ frame' = frame + 1
  /\ op' = "chase"
  /\ UNCHANGED <<FixedElements, MobileElements, Layers, vp, fixedKeys, band, placed, layer, ended,
                 drawn, removed, thrown>>
  /\ UNCHANGED gameVars

SpecChase == ChaseInit /\ [][ChaseStep]_vars

\* Math.hypot(player.x - ch.x, player.y - ch.y) of the level lv
ChaseDist(lv) == Hypot(lv.player[1].x - lv.chaser[1].x, lv.player[1].y - lv.chaser[1].y)

\* C19: with the player at rest and the chaser outside its arrival radius, a
\* step of updateChaser with a frame delta in [0, 40] leaves the distance
\* from chaser to player no larger than it was, whatever the chaser's speed
\* and arrival radius.
CE_C19_DistanceNeverGrows ==
  [][(op' = "chase" /\ lastDt' \in 0..40 /\ ChaseDist(level) > level.chaser[1].arriveRadius)
        => ChaseDist(level') <= ChaseDist(level)]_vars

\* C20: when the chaser is within its arrival radius of the player at the
\* start of updateChaser, the step leaves its position as it was and sets its
\* vx to zero.
C20_ArrivedChaserHolds ==
  [][(op' = "chase" /\ ChaseDist(level) <= level.chaser[1].arriveRadius)
        => /\ level'.chaser[1].x = level.chaser[1].x
           /\ level'.chaser[1].y = level.chaser[1].y
           /\ level'.chaser[1].vx = 0]_vars

\* C20 witness: a chaser that has moved right into its arrival radius and
\* has then been updated again, over a frame of 40 ms: it is at rest there.
W_C20_HeldAfterArrival ==
  /\ op = "chase"
  /\ frame >= 2
  /\ lastDt = 40
  /\ ChaseDist(level) <= level.chaser[1].arriveRadius
  /\ level.chaser[1].x > (vp.w * 2) \div 10
  /\ level.chaser[1].vx = 0

-----------------------------------------------------------------------------
(* Game controller.  requestAnimationFrame hands out increasing ids and     *)
(* keeps the callback waiting until a frame fires it or                     *)
(* cancelAnimationFrame removes it; a frame passes the callback a timestamp *)
(* that never decreases.                                                    *)

\* Game.levelDefs: three levels in the shape of GameDef.levels, with
\* durations of one or two frames and one populated layer at most.
levelDefs ==
  << [ name |-> "Level 1", durationMs |-> 80, player |-> "runner",
       layers |-> <<[layer |-> "mountains", z |-> 10]>> ],
     [ name |-> "Level 2", durationMs |-> 40, player |-> "ninja", chaser |-> "ghost",
       layers |-> <<[layer |-> "mountains", z |-> 10], [layer |-> "road", z |-> 30]>> ],
     [ name |-> "Level 3", durationMs |-> 40, player |-> "robot", chaser |-> "trex",
       layers |-> <<[layer |-> "woods", z |-> 10]>> ] >>

\* Milliseconds between two frames
ClockSteps == {0, 50}

\* Number of requestAnimationFrame calls in one behaviour
MaxRequests == 6

\* requestAnimationFrame(tick): the callback waits under a new id
Request(waiting, id) == waiting \cup {id}

\* if (this._raf) cancelAnimationFrame(this._raf)
Cancel(waiting, id) == IF id # NoRaf THEN waiting \ {id} ELSE waiting

\* Mutant of StartIndex: startGame keeps the index it finds (the last level's
\* once the game has finished).
StartIndexKept == Min(levelIndex, Len(levelDefs) - 1)

\* this.levelIndex = 0
StartIndex == 0

\* Mutant of NextIndex: a finished level is followed by the one after next.
NextIndexSkips(i) == i + 2

\* this.levelIndex += 1
NextIndex(i) == i + 1

\* Mutant of FrameDt: no time passes between two frames.
FrameDtStill(ts, last) == 0

\* Mutant of FrameDt: the delta is the raw difference of the timestamps.
FrameDtRaw(ts, last) == ts - (IF last = NoTs THEN ts ELSE last)

\* const dtMs = Math.min(40, ts - this._lastTs), after
\* if (this._lastTs == null) this._lastTs = ts
FrameDt(ts, last) == Min(40, ts - (IF last = NoTs THEN ts ELSE last))

\* this.level = new RuntimeLevel(this.levelDefs[i]); this.level.start(vp)
loadLevel(i, v) == LevelStart(RuntimeLevel(levelDefs[i + 1]), v)

Caller == [state |-> state, levelIndex |-> levelIndex]

GameInit ==
  /\ FixedElements = SourceFixedElements
  /\ MobileElements = SourceMobileElements
  /\ Layers = SourceLayers
  /\ vp \in Viewports
  /\ fixedKeys = <<>>
  /\ band = NoBand
  /\ placed = <<>>
  /\ layer = NoLayer
  /\ level = NoLevel
  /\ ended = FALSE
  /\ drawn = <<>>
  /\ removed = <<>>
  /\ lastDt = 0
  /\ frame = 0
  /\ op = "boot"
  /\ thrown = FALSE
  /\ GameIdle

\* Start button of the start popup
startGame ==
  /\ nextId <= MaxRequests
  /\ state' = "running"
  /\ levelIndex' = StartIndex
  /\ \E r \in loadLevel(levelIndex', vp) :
        /\ level' = r.level
        /\ thrown' = r.thrown
        /\ IF r.thrown
           THEN UNCHANGED <<raf, lastTs, pending, nextId>>
           ELSE /\ lastTs' = NoTs
                /\ raf' = nextId
                /\ pending' = Request(pending, nextId)
                /\ nextId' = nextId + 1
  /\ UNCHANGED scene
  /\ prev' = Caller
  /\ fired' = 0
  /\ op' = "startGame"
  /\ UNCHANGED <<FixedElements, MobileElements, Layers, vp, fixedKeys, band, placed, layer, ended,
                 clock, stopMark, lastDt, frame>>
  /\ drawn' = <<>>
  /\ UNCHANGED removed

startLoop ==
  /\ nextId <= MaxRequests
  /\ lastTs' = NoTs
  /\ raf' = nextId
  /\ pending' = Request(pending, nextId)
  /\ nextId' = nextId + 1
  /\ UNCHANGED scene
  /\ prev' = Caller
  /\ fired' = 0
  /\ op' = "startLoop"
  /\ UNCHANGED <<FixedElements, MobileElements, Layers, vp, fixedKeys, band, placed, layer, level,
                 ended, state, levelIndex, clock, stopMark, lastDt, frame, thrown>>
  /\ drawn' = <<>>
  /\ UNCHANGED removed

\* Called on its own, and by showStartPopup before it opens the popup
stopLoop ==
  /\ pending' = Cancel(pending, raf)
  /\ raf' = NoRaf
  /\ stopMark' = nextId
  /\ UNCHANGED scene
  /\ prev' = Caller
  /\ fired' = 0
  /\ op' = "stopLoop"
  /\ UNCHANGED <<FixedElements, MobileElements, Layers, vp, fixedKeys, band, placed, layer, level,
                 ended, state, levelIndex, lastTs, nextId, clock, lastDt, frame, thrown>>
  /\ drawn' = <<>>
  /\ UNCHANGED removed

\* Escape key, and the Main Menu buttons
showMainMenu ==
  /\ state' = "menu"
  /\ pending' = Cancel(pending, raf)
  /\ raf' = NoRaf
  /\ stopMark' = nextId
  /\ UNCHANGED scene
  /\ prev' = Caller
  /\ fired' = 0
  /\ op' = "showMainMenu"
  /\ UNCHANGED <<FixedElements, MobileElements, Layers, vp, fixedKeys, band, placed, layer, level,
                 ended, levelIndex, lastTs, nextId, clock, lastDt, frame, thrown>>
  /\ drawn' = <<>>
  /\ UNCHANGED removed

\* What tick does once level.update has returned r for the delta dtMs: it
\* draws the level, then acts on r.ended; waiting holds the callbacks still
\* to fire.
AfterUpdate(r, dtMs, waiting) ==
  /\ lastDt' = dtMs
  /\ ended' = r.ended
  /\ drawn' = IF r.thrown THEN <<>> ELSE LevelDraw(r.level)
  /\ IF r.thrown
     THEN /\ level' = r.level
          /\ thrown' = TRUE
          /\ pending' = waiting
          /\ UNCHANGED <<state, levelIndex, raf, nextId, stopMark>>
     ELSE IF r.ended /\ NextIndex(levelIndex) >= Len(levelDefs)
     THEN \* finishGame
          /\ levelIndex' = NextIndex(levelIndex)
          /\ state' = "finished"
          /\ pending' = Cancel(waiting, raf)
          /\ raf' = NoRaf
          /\ stopMark' = nextId
          /\ level' = LevelAfterDraw(r.level)
          /\ UNCHANGED <<nextId, thrown>>
     ELSE IF r.ended
     THEN /\ levelIndex' = NextIndex(levelIndex)
          /\ \E n \in loadLevel(levelIndex', vp) :
                /\ level' = n.level
                /\ thrown' = n.thrown
                /\ IF n.thrown
                   THEN /\ pending' = waiting
                        /\ UNCHANGED <<raf, nextId>>
                   ELSE /\ raf' = nextId
                        /\ pending' = Request(waiting, nextId)
                        /\ nextId' = nextId + 1
          /\ UNCHANGED <<state, stopMark>>
     ELSE /\ level' = LevelAfterDraw(r.level)
          /\ raf' = nextId
          /\ pending' = Request(waiting, nextId)
          /\ nextId' = nextId + 1
          /\ UNCHANGED <<state, levelIndex, stopMark, thrown>>

\* Mutant of Running: tick goes on whatever the state.
RunningAlways(s) == TRUE

\* if (this.state !== "running") return: tick goes on in this state only
Running(s) == s = "running"

\* this.level.update(dtMs, vp): with this.level still null the call raises a
\* TypeError
UpdateOf(lv, dtMs, v) ==
  IF lv = NoLevel THEN {[level |-> lv, ended |-> FALSE, thrown |-> TRUE]}
  ELSE LevelUpdate(lv, dtMs, v)

\* A frame fires the waiting callback id
tick(id) ==
  /\ nextId <= MaxRequests
  /\ \E d \in ClockSteps :
       LET ts == clock + d
           dtMs == FrameDt(ts, lastTs)
       IN /\ clock' = ts
          /\ IF ~Running(state)
             THEN /\ pending' = pending \ {id}
                  /\ op' = "return"
                  /\ drawn' = <<>>
                  /\ UNCHANGED <<level, ended, state, levelIndex, raf, lastTs, nextId,
                                 stopMark, lastDt, thrown>>
             ELSE /\ lastTs' = ts
                  /\ op' = "tick"
                  /\ \E r \in UpdateOf(level, dtMs, vp) :
                        AfterUpdate(r, dtMs, pending \ {id})
  /\ fired' = id
  /\ UNCHANGED scene
  /\ prev' = Caller
  /\ frame' = frame + 1
  /\ UNCHANGED <<FixedElements, MobileElements, Layers, vp, fixedKeys, band, placed, layer>>
  /\ UNCHANGED removed

Frame == \E id \in pending : tick(id)

Next == startGame \/ startLoop \/ stopLoop \/ showMainMenu \/ Frame

Spec == GameInit /\ [][Next]_vars

\* C2: once stopLoop has returned, for any sequence of startGame, startLoop,
\* stopLoop and showMainMenu calls and frames, no callback requested before
\* that stop performs a level update or draw.
CE_C2_StoppedTickNeverRuns ==
  [][op' = "tick" => fired' >= stopMark]_vars

\* C3: a tick whose update reports the level ended adds exactly one to
\* levelIndex; if a level remains at that index it is loaded with elapsed
\* time zero and the next frame is requested, otherwise the state becomes
\* "finished" and no frame is requested.  levelIndex changes in no other way
\* but the reset of startGame.
C3_TickAdvancesOneLevel ==
  [][ /\ (op' = "tick" /\ ended' /\ ~thrown') =>
           /\ levelIndex' = levelIndex + 1
           /\ IF levelIndex' < Len(levelDefs)
              THEN /\ state' = "running"
                   /\ level'.name = levelDefs[levelIndex' + 1].name
                   /\ level'.elapsedMs = 0
                   /\ raf' \in pending' \ pending
              ELSE /\ state' = "finished"
                   /\ raf' = NoRaf
                   /\ pending' \subseteq pending \ {fired'}
      /\ levelIndex' # levelIndex =>
           \/ op' = "tick" /\ ended' /\ levelIndex' = levelIndex + 1
           \/ op' = "startGame" /\ levelIndex' = 0
    ]_vars

\* C3 witness: the tick that ended the first level loaded the second one and
\* requested the next frame.
W_C3_SecondLevelLoaded ==
  /\ op = "tick"
  /\ ended
  /\ prev.levelIndex = 0
  /\ levelIndex = 1
  /\ level.name = "Level 2"
  /\ level.elapsedMs = 0
  /\ raf \in pending

\* C4: whatever the state and level index it is called in, startGame leaves
\* the state "running", levelIndex 0, and a newly started runtime of the
\* first level: elapsed time zero, no mobile spawned, the frame loop
\* requested.
C4_StartGameResets ==
  op = "startGame" =>
     /\ state = "running"
     /\ levelIndex = 0
     /\ level.name = levelDefs[1].name
     /\ level.elapsedMs = 0
     /\ \A i \in 1..Len(level.layers) : NumMobiles(level.layers[i].layer.instances) = 0
     /\ level.player # <<>> /\ level.player[1].tMs = 0
     /\ raf \in pending

\* C4 witness: startGame called after the last level had finished.
W_C4_RestartAfterFinish ==
  /\ op = "startGame"
  /\ prev.state = "finished"
  /\ prev.levelIndex = Len(levelDefs)

\* C11: every dtMs that tick passes to the level's update lies in [0, 40];
\* the first updating tick after startLoop passes 0, whatever time has gone
\* by since the loop was stopped, and so does no tick measure from before it.
C11_FrameDeltaClamped ==
  [][op' = "tick" =>
        /\ lastDt' \in 0..40
        /\ lastTs = NoTs => lastDt' = 0
        /\ lastTs # NoTs => lastDt' = Min(40, clock' - lastTs)]_vars

\* C11 witness: the first tick of a newly loaded level, fired 50 ms after
\* the tick that loaded it, has passed 40 (and so ended the 40 ms level).
W_C11_ClampedAfterLoad ==
  /\ op = "tick"
  /\ frame = 4
  /\ prev.levelIndex = 1
  /\ levelIndex = 2
  /\ ended
  /\ lastDt = 40

-----------------------------------------------------------------------------
(* The chase within a level (SpecLevel) *)

\* The chaser of lv is within its arrival radius of the player
Caught(lv) == lv.chaser # <<>> /\ ChaseDist(lv) <= lv.chaser[1].arriveRadius

\* C21: pursuit has no effect on the player or on the progress of the level:
\* an update leaves the player where it was, one frame older, whether or not
\* the chaser has reached it; the elapsed time grows by the frame delta and
\* the update returns whether the duration has been reached, nothing else.
C21_CatchHasNoEffect ==
  [][(op' = "update" /\ ~thrown') =>
        /\ level'.player = <<[level.player[1] EXCEPT !.tMs = @ + lastDt']>>
        /\ level'.elapsedMs = level.elapsedMs + lastDt'
        /\ level'.durationMs = level.durationMs
        /\ ended' = (level'.elapsedMs >= level'.durationMs)]_vars

\* C21 witness: an update made while the chaser had already caught the
\* player, in a level that runs on afterwards.
W_C21_CaughtAndRunning ==
  /\ op = "update"
  /\ ~thrown
  /\ Caught(level)
  /\ level.chaser[1].vx = 0
  /\ level.chaser[1].x > (vp.w * 2) \div 10
  /\ ~ended
  /\ level.elapsedMs < level.durationMs

-----------------------------------------------------------------------------
(* updateMobile called on its own on a mobile that no event can touch *)

\* The scenario: the start, the velocity in px/s and the frame delta in ms
Glide == [x |-> 0 - Px(32), vx |-> 100, dtMs |-> 100]

MaxGlideFrames == 10

\* The behavior b with the three event rates at zero
Quiet(b) ==
  [b EXCEPT !.events.pausePPerSec = 0, !.events.turnBackPPerSec = 0,
            !.events.changeSpeedPPerSec = 0]

\* The behavior b with the three event rates left out (?? 0)
Silent(b) ==
  [b EXCEPT !.events = [ accelP |-> b.events.accelP, accelFactor |-> b.events.accelFactor,
                         decelFactor |-> b.events.decelFactor, pauseMs |-> b.events.pauseMs ]]

GlideBehaviors ==
  UNION { {[q EXCEPT !.bounds.turnBackAtEdgeP = p] : p \in {0, 55, 100}}
          : q \in {Quiet(Behaviors.traffic), Quiet(Behaviors.floaty), Silent(Behaviors.traffic)} }

\* fontSize of the MobileElements of the source
GlideSizes == {Px(28), Px(32), Px(36)}

GlideViewports == {[w |-> Px(320), h |-> Px(480)], [w |-> Px(800), h |-> Px(600)]}

\* The mobile of the scenario
GlideMobile(b, size) ==
  [ type |-> "mobile", key |-> "car", fontSize |-> size, x |-> Glide.x, y |-> 0,
    vx |-> Glide.vx, pausedMs |-> 0, behavior |-> b, tMs |-> 0,
    ttlMs |-> Field(b, "ttlMs", 15000),
    jitterFreq |-> JitterFreq(FreqOf(b)),
    jitterPhaseX |-> JitterPhase, jitterPhaseY |-> JitterPhase ]

GlideInit ==
  /\ FixedElements = SourceFixedElements
  /\ MobileElements = SourceMobileElements
  /\ Layers = SourceLayers
  /\ vp \in GlideViewports
  /\ fixedKeys = <<>>
  /\ band = NoBand
  /\ placed = <<>>
  /\ layer \in { [NoLayer EXCEPT !.instances = <<GlideMobile(b, size)>>]
                 : b \in GlideBehaviors, size \in GlideSizes }
  /\ level = NoLevel
  /\ ended = FALSE
  /\ drawn = <<>>
  /\ removed = <<>>
  /\ lastDt = 0
  /\ frame = 0
  /\ op = "new"
  /\ thrown = FALSE
  /\ GameIdle

\* One advance: updateMobile(it, 100, vp)
GlideStep ==
  /\ frame < MaxGlideFrames
  /\ \E it \in updateMobile(layer.instances[1], Glide.dtMs, vp) :
        layer' = [layer EXCEPT !.instances = <<it>>]
  /\ lastDt' = Glide.dtMs
  /\ frame' = frame + 1
  /\ op' = "glide"
  /\ UNCHANGED <<FixedElements, MobileElements, Layers, vp, fixedKeys, band, placed, level, ended,
                 drawn, removed, thrown>>
  /\ UNCHANGED gameVars

SpecGlide == GlideInit /\ [][GlideStep]_vars

\* C22: a mobile whose behavior has the pause, U-turn and speed-change rates
\* at zero, set at x = -32 with velocity +100 px/s, has moved 10 px per
\* advance of 100 ms at its unchanged velocity, unpaused and untouched by the
\* boundary policy, on every execution; after ten advances it is at x = 68.
C22_QuietMobileGlides ==
  LET it == layer.instances[1] IN
  /\ it.x = Glide.x + frame * Px(10)
  /\ it.vx = Glide.vx
  /\ it.pausedMs = 0
  /\ it.ttlMs = Field(it.behavior, "ttlMs", 15000) - frame * Glide.dtMs
  /\ frame = 10 => it.x = Px(68)

\* C22 witness: the tenth advance has been made.
W_C22_TenAdvances ==
  /\ op = "glide"
  /\ frame = 10
  /\ layer.instances[1].tMs = 1000
  /\ layer.instances[1].x = Px(68)

-----------------------------------------------------------------------------
(* placeFixedInBand when the attempts run out (SpecPlace) *)

\* The keys of the instances of a placed list
PlacedKeys(insts) == {insts[i].key : i \in 1..Len(insts)}

\* The list keys without its entry i
WithoutKey(keys, i) == SubSeq(keys, 1, i - 1) \o SubSeq(keys, i + 1, Len(keys))

\* widthPx of the definition def
WidthOf(def) == Field(def, "widthPx", (Field(def, "fontSize", Px(48)) * 12) \div 10)

\* The non-stackable type key has no position left: every position the
\* sampling can yield overlaps the footprint of a placed non-stackable
\* instance of another type.
Squeezed(key) ==
  /\ Has(FixedElements, key)
  /\ ~Field(FixedElements[key], "stackable", FALSE)
  /\ \A x \in SampleX(vp.w, WidthOf(FixedElements[key])) :
        \E j \in 1..Len(placed) :
           /\ placed[j].key # key
           /\ ~Stackable(placed[j])
           /\ ~Disjoint([x0 |-> x, x1 |-> x + WidthOf(FixedElements[key])],
                        Footprint(placed[j]))

\* C23: a non-stackable type that finds no free position within the 22
\* attempts is left out of the returned list and no error is raised; the
\* list is one the call could have returned had the type not been listed
\* (nothing was recorded as occupied for it, and the keys after it were
\* processed).
C23_ExhaustedTypeOmitted ==
  op = "placeFixedInBand" =>
     /\ ~thrown
     /\ \A i \in 1..Len(fixedKeys) :
           /\ Squeezed(fixedKeys[i]) => fixedKeys[i] \notin PlacedKeys(placed)
           /\ (Has(FixedElements, fixedKeys[i]) /\ fixedKeys[i] \notin PlacedKeys(placed))
                 => placed \in placeFixedInBand(WithoutKey(fixedKeys, i), band, vp)

\* C23 witness: the office found every position taken by the factory and
\* was left out, and the tree listed after it was placed.
W_C23_OmittedThenPlaced ==
  /\ op = "placeFixedInBand"
  /\ fixedKeys = <<"factory", "office", "dtree">>
  /\ Squeezed("office")
  /\ Len(placed) = 2
  /\ placed[1].key = "factory"
  /\ placed[2].key = "dtree"

-----------------------------------------------------------------------------
(* Event chances within a RuntimeLayer (SpecLayer) *)

\* The rates per second of the tables: the spawn rates of MobileElements and
\* the event rates of Behaviors (0.03 to 1.2 per second in the source)
ConfiguredRates ==
  {Field(MobileElements[k], "ratePerSec", 0) : k \in DOMAIN MobileElements}
  \cup UNION { { Field(Behaviors[b].events, "pausePPerSec", 0),
                 Field(Behaviors[b].events, "changeSpeedPPerSec", 0),
                 Field(Behaviors[b].events, "turnBackPPerSec", 0) } : b \in DOMAIN Behaviors }

\* C24: for every frame delta of 0 to 40 ms and every configured rate the
\* chance r * dt / 1000 that eventThisFrame compares with lies in [0, 1];
\* for a frame of 0 ms it is 0 and the event cannot fire, so an update of
\* 0 ms spawns nothing and leaves every instance as it was.
C24_EventChanceWithinUnit ==
  [][ /\ op' = "init" =>
           \A r \in ConfiguredRates : \A dt \in 0..40 :
              /\ EventChance(r, dt) \in 0..CertainChance
              /\ dt = 0 => (EventChance(r, dt) = 0 /\ eventThisFrame(r, dt) = {FALSE})
      /\ (op' = "update" /\ lastDt' = 0) =>
           /\ layer' = layer
           /\ removed' = <<>>
           /\ ~thrown'
    ]_vars

\* C24 witness: an update of 0 ms of a layer that holds an unpaused mobile,
\* after an update of 0 ms that could have spawned one.
W_C24_ZeroFrame ==
  /\ op = "update"
  /\ lastDt = 0
  /\ frame = MaxFrames
  /\ layer.mobileKeys # <<>>
  /\ \E it \in Mobiles(layer) : it.pausedMs = 0 /\ it.vx # 0

-----------------------------------------------------------------------------
(* Time bookkeeping of the mobiles of a RuntimeLayer (SpecLayer) *)

\* it is the instance old one update later: same key and row, its
\* time-to-live down by the frame delta
SameInstance(it, old, dtMs) ==
  it.key = old.key /\ it.y = old.y /\ it.ttlMs = old.ttlMs - dtMs

\* C25: across an update of a layer, a mobile instance it holds before and
\* after has its time-to-live decreased by the frame delta and its elapsed
\* time increased by the frame delta, added once.
CE_C25_ElapsedAddedOnce ==
  [][op' = "update" =>
        \A old \in Mobiles(layer) : \A it \in Mobiles(layer') :
           SameInstance(it, old, lastDt') => it.tMs = old.tMs + lastDt']_vars


\* Where createMobileInstance sets an instance of that size in the viewport v
SpawnXs(it, v) == {0 - it.fontSize, v.w + it.fontSize}

\* C26: a mobile that an update leaves paused (pause-remaining > 0 after the
\* pause step, the frame in which the pause begins included) has not been
\* moved, turned or changed in speed by it: one held before has its x and vx
\* of before, one spawned by the update is where it was spawned, at a speed
\* of its behavior's range.
C26_PausedMobileStays ==
  [][op' = "update" =>
        \A it \in Mobiles(layer') :
           it.pausedMs > 0 =>
              /\ \A old \in Mobiles(layer) :
                    Continues(it, old, lastDt') => (it.x = old.x /\ it.vx = old.vx)
              /\ (\A old \in Mobiles(layer) : ~Continues(it, old, lastDt')) =>
                    /\ Fresh(it, lastDt')
                    /\ it.x \in SpawnXs(it, vp)
                    /\ Abs(it.vx) \in rand(it.behavior.speed.min, it.behavior.speed.max)
    ]_vars

\* C26 witness: a mobile that had moved into the viewport is paused by an
\* update of 40 ms.
W_C26_PausedInside ==
  /\ op = "update"
  /\ lastDt = 40
  /\ \E it \in Mobiles(layer) :
        /\ it.pausedMs > 0
        /\ it.tMs >= 160
        /\ it.x \notin SpawnXs(it, vp)

-----------------------------------------------------------------------------
(* The mobiles of a level and the edges of the viewport (SpecLevel) *)

\* The mobile instances held by the layers of lv
LevelMobiles(lv) == UNION {Mobiles(lv.layers[i].layer) : i \in 1..Len(lv.layers)}

\* it is within the margin band of the viewport v
WithinMargins(it, v) == 0 - Margin(it) <= it.x /\ it.x <= v.w + Margin(it)

\* C27: every mobile that survives an update lies within
\* [-margin, width + margin], margin = size * marginFactor, for the viewport
\* width of that frame: one found beyond either edge has been turned back
\* and clamped onto the band, or had its time-to-live set to 0 and was
\* culled.
C27_SurvivorsWithinMargins ==
  (op = "update" /\ ~thrown) => \A it \in LevelMobiles(level) : WithinMargins(it, vp)

\* C27 witness: a survivor stands on the edge of the margin band, heading
\* back in.
W_C27_TurnedBackAtEdge ==
  /\ op = "update"
  /\ ~thrown
  /\ \E it \in LevelMobiles(level) :
        \/ it.x = vp.w + Margin(it) /\ it.vx < 0
        \/ it.x = 0 - Margin(it) /\ it.vx > 0


\* The set of the entries of a list
Range(seq) == {seq[i] : i \in 1..Len(seq)}

\* What C28 asks of an instance it that createMobileInstance has made for
\* the band bnd in the viewport v
EntersFromOutside(it, bnd, v) ==
  /\ \/ it.x = 0 - it.fontSize /\ it.vx > 0
     \/ it.x = v.w + it.fontSize /\ it.vx < 0
  /\ it.behavior.speed.min <= Abs(it.vx)
  /\ Abs(it.vx) <= it.behavior.speed.max
  /\ it.pausedMs = 0
  /\ bnd.yTop <= it.y
  /\ it.y <= Max(bnd.yTop, bnd.yBottom - it.fontSize)

\* C28: in every frame in which a layer of the level can spawn, each
\* instance createMobileInstance can make for a mobile key of the layer, its
\* band and the viewport of the frame starts just outside the viewport on
\* its spawn side and moves into it (x = -size with vx > 0, or
\* x = width + size with vx < 0), at a speed within the behavior's range,
\* unpaused, with y in [band top, max(band top, band bottom - size)].
C28_SpawnedOutsideMovingIn ==
  (op = "update" /\ ~thrown /\ lastDt > 0) =>
     \A i \in 1..Len(level.layers) :
        LET L   == level.layers[i].layer
            bnd == BandsGet(level.bands, L.name, vp)
        IN  \A k \in Range(L.mobileKeys) :
               \A r \in createMobileInstance(k, bnd, vp) :
                  r.kind = "inst" /\ EntersFromOutside(r.inst, bnd, vp)

\* C28 witness: the update has spawned a mobile, which has moved out of its
\* spawn position into the viewport.
W_C28_SpawnedThisFrame ==
  /\ op = "update"
  /\ ~thrown
  /\ lastDt = 40
  /\ \E it \in LevelMobiles(level) :
        /\ Fresh(it, lastDt)
        /\ it.x = (0 - it.fontSize) + it.vx * lastDt
        /\ it.vx > 0

-----------------------------------------------------------------------------
(* Order of the instances of a RuntimeLayer (SpecLayer) *)

\* C29: in the instance list of a layer every fixed instance comes before
\* every mobile instance, after any sequence of spawns and culls, and a draw
\* goes through the list in that order: the props first, the mobiles on top.
C29_FixedBeforeMobiles ==
  /\ \A i, j \in 1..Len(layer.instances) :
        (layer.instances[i].type = "fixed" /\ layer.instances[j].type = "mobile") => i < j
  /\ op = "draw" =>
        /\ Len(drawn) = Len(layer.instances)
        /\ \A i \in 1..Len(drawn) : drawn[i].glyph = layer.instances[i].key

\* C29 witness: a draw of a layer that holds props and a mobile spawned by
\* its third update.
W_C29_PropsThenMobile ==
  /\ op = "draw"
  /\ frame = MaxFrames
  /\ removed = <<>>
  /\ lastDt = 40
  /\ FixedOf(layer) # <<>>
  /\ \E it \in Mobiles(layer) : Fresh(it, lastDt)
  /\ drawn[1].glyph \in DOMAIN FixedElements
  /\ drawn[Len(drawn)].glyph \in DOMAIN MobileElements

-----------------------------------------------------------------------------
(* Fixed instances and the band they are placed in (SpecPlace) *)

\* C30: every fixed instance placeFixedInBand returns has the full height of
\* its glyph inside the band: band top <= y and y + size <= band bottom,
\* bands clipped at the top of the viewport included.
CE_C30_GlyphInsideBand ==
  op = "placeFixedInBand" =>
     \A i \in 1..Len(placed) :
        /\ band.yTop <= placed[i].y
        /\ placed[i].y + placed[i].fontSize <= band.yBottom

-----------------------------------------------------------------------------
(* Drawing and the simulation state (SpecLevel) *)

\* C31: drawing is read-only with respect to the simulation state:
\* RuntimeLevel.draw, RuntimeLayer.draw, drawMobile and drawChaser leave the
\* level as it was, every instance's position, velocity, time-to-live,
\* remaining pause and elapsed time included, so the render-time jitter offset
\* never reaches integration, boundary handling or culling.
C31_DrawLeavesLevel == [][op' = "draw" => level' = level]_vars

\* C31 witness: a frame was drawn in which a mobile and the chaser appear
\* away from their positions, moved by their jitter offsets.
W_C31_DrawnWithJitter ==
  /\ op = "draw"
  /\ LET es == Entities(level) IN
     /\ Len(drawn) = Len(es)
     /\ \E i \in 1..Len(es) : es[i].type = "mobile" /\ drawn[i].y # es[i].y
     /\ \E i \in 1..Len(es) : es[i].type = "chaser" /\ drawn[i].x # es[i].x

-----------------------------------------------------------------------------
(* The callbacks waiting with the frame scheduler (Spec) *)

\* C32: at every moment at most one tick callback of the controller is
\* pending with the frame scheduler, for any sequence of startGame, startLoop,
\* stopLoop, showMainMenu and frames, so that the level is updated at most
\* once per displayed frame.
CE_C32_AtMostOnePending == Cardinality(pending) <= 1

-----------------------------------------------------------------------------
(* One session of the game: the Start button of the start popup, frames at  *)
(* positive intervals until the last level has ended, then the Main Menu    *)
(* button of the "Game Finished" overlay.  The display keeps delivering the *)
(* frames that have been requested.                                         *)

\* Start button of the start popup shown at boot
RunStart == op = "boot" /\ startGame

\* A frame whose timestamp is later than that of the frame before
RunFrame == Frame /\ clock' > clock

\* Main Menu button of the "Game Finished" overlay
RunMenu == state = "finished" /\ showMainMenu

RunNext == RunStart \/ RunFrame \/ RunMenu

\* The display calls a waiting callback: in a session every step that
\* counts a frame is a RunFrame step, and one is possible whenever a callback
\* waits
FrameFires == pending # {} /\ nextId <= MaxRequests /\ frame' = frame + 1

SpecRun == GameInit /\ [][RunNext]_vars /\ WF_frame(FrameFires)

\* C33: once startGame has been called, if frames keep firing at positive
\* intervals and neither stopLoop nor showMainMenu is invoked, the controller
\* eventually reaches the finished state, with every level of the list ended
\* in order; from finished the state changes only through showMainMenu or
\* startGame.
C33_RunReachesFinished ==
  /\ (state = "running") ~> (state = "finished" /\ levelIndex = Len(levelDefs))
  /\ [][levelIndex' \in {levelIndex, levelIndex + 1} \/ op' = "startGame"]_vars
  /\ [][state = "finished" /\ state' # "finished" => op' \in {"showMainMenu", "startGame"}]_vars

\* C33 witness: the game has finished in a tick, past the last level, after
\* frames of positive delta.
W_C33_Finished ==
  /\ state = "finished"
  /\ op = "tick"
  /\ levelIndex = Len(levelDefs)
  /\ lastDt > 0

-----------------------------------------------------------------------------
(* Stackable types in placeFixedInBand (SpecPlace) *)

\* The instances of a placed list that are not stackable, in order
RECURSIVE Solid(_)
Solid(insts) ==
  IF insts = <<>> THEN <<>>
  ELSE (IF Stackable(insts[1]) THEN <<>> ELSE <<insts[1]>>) \o Solid(Tail(insts))

\* The keys of a list that are not keys of stackable types, in order
RECURSIVE SolidKeys(_)
SolidKeys(keys) ==
  IF keys = <<>> THEN <<>>
  ELSE (IF Has(FixedElements, keys[1]) /\ Field(FixedElements[keys[1]], "stackable", FALSE)
        THEN <<>> ELSE <<keys[1]>>) \o SolidKeys(Tail(keys))

\* The segments occupied by the non-stackable instances of a placed list
Taken(insts) == [j \in 1..Len(Solid(insts)) |-> Footprint(Solid(insts)[j])]

\* key is a stackable type of the table
StackableKey(key) ==
  Has(FixedElements, key) /\ Field(FixedElements[key], "stackable", FALSE)

\* C34: a stackable type that has passed its probability draw is always
\* placed, at the first position sampled, whatever is occupied in the band
\* (here: by the non-stackable instances of the returned list), and its
\* footprint is not recorded as occupied: where a stackable instance has been
\* placed, the non-stackable instances of the returned list are a list the
\* call could have returned had no stackable type been listed.
C34_StackableAlwaysPlaced ==
  op = "placeFixedInBand" =>
     /\ \A i \in 1..Len(fixedKeys) :
           StackableKey(fixedKeys[i]) =>
              AttemptLoop(0, TRUE, WidthOf(FixedElements[fixedKeys[i]]), Taken(placed), vp.w)
                = { [ok |-> TRUE, x |-> x, occupied |-> Taken(placed)]
                    : x \in SampleX(vp.w, WidthOf(FixedElements[fixedKeys[i]])) }
     /\ Solid(placed) # placed
           => Solid(placed) \in placeFixedInBand(SolidKeys(fixedKeys), band, vp)

\* C34 witness: a factory was placed over the footprint of the stackable tree
\* listed before it, and a second tree over the footprint of the factory.
W_C34_OverlappingTrees ==
  /\ op = "placeFixedInBand"
  /\ fixedKeys = <<"dtree", "factory", "dtree">>
  /\ Len(placed) = 3
  /\ ~Disjoint(Footprint(placed[1]), Footprint(placed[2]))
  /\ ~Disjoint(Footprint(placed[2]), Footprint(placed[3]))
  /\ placed[1].x # placed[3].x

-----------------------------------------------------------------------------
(* A callback that fires outside a run (Spec) *)

\* C35: a tick that fires while the state is not "running" (menu or
\* finished) performs no level update and no draw, changes nothing of the
\* level, its layers and instances nor of the controller, and requests no
\* further callback: it only leaves the scheduler.
C35_IdleTickDoesNothing ==
  [][(frame' # frame /\ state # "running") =>
        /\ level' = level
        /\ drawn' = <<>>
        /\ op' = "return"
        /\ pending' = pending \ {fired'}
        /\ <<state, levelIndex, raf, lastTs, nextId, ended, lastDt>>'
             = <<state, levelIndex, raf, lastTs, nextId, ended, lastDt>>]_vars

\* C35 witness: a callback left over from a run has fired in the menu: the
\* level it found is still there, and nothing waits with the scheduler.
W_C35_FiredInMenu ==
  /\ op = "return"
  /\ state = "menu"
  /\ level # NoLevel
  /\ pending = {}

-----------------------------------------------------------------------------
(* The life of one mobile: an instance createMobileInstance has made, held  *)
(* by a layer that is updated frame after frame until the cull pass drops   *)
(* it.  The layer lists no mobile key, so that nothing else is spawned;     *)
(* frames of positive delta keep coming.                                    *)

\* The mobile types of the source's table
LifeKeys == {"car", "bus", "drone"}

LifeInit ==
  /\ FixedElements = SourceFixedElements
  /\ MobileElements = SourceMobileElements
  /\ Layers = SourceLayers
  /\ vp \in Viewports
  /\ fixedKeys = <<>>
  /\ band \in LayerBands
  /\ placed = <<>>
  /\ \E k \in LifeKeys : \E o \in createMobileInstance(k, band, vp) :
        layer = [NoLayer EXCEPT !.instances = <<o.inst>>]
  /\ level = NoLevel
  /\ ended = FALSE
  /\ drawn = <<>>
  /\ removed = <<>>
  /\ lastDt = 0
  /\ frame = 0
  /\ op = "new"
  /\ thrown = FALSE
  /\ GameIdle

\* One frame: layer.update(dtMs, band, vp) while the instance is held
LifeUpdate ==
  /\ Mobiles(layer) # {}
  /\ \E dt \in FrameDeltas :
       \E r \in LayerUpdate(layer, dt, band, vp) :
          /\ layer' = r.layer
          /\ removed' = r.removed
          /\ lastDt' = dt
  /\ op' = "update"
  /\ UNCHANGED <<FixedElements, MobileElements, Layers, vp, fixedKeys, band, placed, level, ended,
                 drawn, frame, thrown>>
  /\ UNCHANGED gameVars

\* A frame of positive delta
LifeFrame == LifeUpdate /\ lastDt' > 0

SpecLife == LifeInit /\ [][LifeUpdate]_vars /\ WF_vars(LifeFrame)

\* C36: no update increases the time-to-live of a mobile instance: every
\* layer update that keeps the instance has lowered its time-to-live by the
\* frame delta, also while it is paused or turned back at an edge; so every
\* spawned mobile is removed from its layer after finitely many frames of
\* positive delta.
C36_MobileExpires ==
  /\ [][Mobiles(layer') # {} =>
          layer'.instances[1].ttlMs = layer.instances[1].ttlMs - lastDt']_vars
  /\ <>(Mobiles(layer) = {})

\* C36 witness: an instance turned back at the left edge and then paused is
\* two frames into its pause, with 40 ms of its 160 ms left.
W_C36_PausedAfterTurnBack ==
  /\ op = "update"
  /\ \E it \in Mobiles(layer) :
        /\ it.x = 0 - Margin(it)
        /\ it.vx > 0
        /\ it.pausedMs = 20
        /\ it.ttlMs = 40

-----------------------------------------------------------------------------
(* The life of one mobile in a canvas that the host resizes between frames *)

\* The host resizes the canvas between two frames: the instance has been
\* through the update that spawned it
EdgeResize ==
  /\ op = "update"
  /\ Mobiles(layer) # {}
  /\ vp' \in Viewports \ {vp}
  /\ op' = "resize"
  /\ UNCHANGED <<FixedElements, MobileElements, Layers, fixedKeys, band, placed, layer, level,
                 ended, drawn, removed, lastDt, frame, thrown>>
  /\ UNCHANGED gameVars

EdgeNext == LifeUpdate \/ EdgeResize

SpecEdge == LifeInit /\ [][EdgeNext]_vars

\* What the bounds policy makes of m when it turns it back in the viewport v
TurnedBack(m, v) ==
  [m EXCEPT !.vx = 0 - @, !.x = clamp(@, 0 - Margin(m), v.w + Margin(m))]

\* C37: whenever the boundary policy turns a mobile instance back instead of
\* expiring it, its velocity afterwards points toward the viewport interior:
\* positive after a turn-back at the left edge, negative after one at the
\* right edge, also in a frame before which the viewport width has changed.
CE_C37_TurnedBackHeadsInward ==
  [][(op' = "update" /\ Mobiles(layer') # {}) =>
        LET it == layer'.instances[1] IN
        \A m \in BeforeBounds([layer.instances[1] EXCEPT !.tMs = @ + lastDt'], lastDt') :
           /\ (m.x < 0 - Margin(m) /\ it = TurnedBack(m, vp)) => it.vx > 0
           /\ (m.x > vp.w + Margin(m) /\ it = TurnedBack(m, vp)) => it.vx < 0]_vars

-----------------------------------------------------------------------------
(* A RuntimeLevel whose definition lists one layer key at two depths *)

\* The Layers table of the source and a bus lane without props
TwiceLayers ==
  SourceLayers @@
  [ lane |-> [name |-> "lane", height |-> Px(5), mobiles |-> <<"bus">>, fixed |-> <<>>] ]

\* Level definitions: the lane in the background and again in the
\* foreground, and the lane once
TwiceInputs ==
  { [ name |-> "Twice", durationMs |-> 80, player |-> "runner",
      layers |-> <<[layer |-> "lane", z |-> 10], [layer |-> "lane", z |-> 30]>> ],
    [ name |-> "Once", durationMs |-> 80, player |-> "runner",
      layers |-> <<[layer |-> "lane", z |-> 10]>> ] }

TwiceInit ==
  /\ FixedElements = SourceFixedElements
  /\ MobileElements = SourceMobileElements
  /\ Layers = TwiceLayers
  /\ vp \in Viewports
  /\ fixedKeys = <<>>
  /\ band = NoBand
  /\ placed = <<>>
  /\ layer = NoLayer
  /\ level \in {RuntimeLevel(d) : d \in TwiceInputs}
  /\ ended = FALSE
  /\ drawn = <<>>
  /\ removed = <<>>
  /\ lastDt = 0
  /\ frame = 0
  /\ op = "new"
  /\ thrown = FALSE
  /\ GameIdle

\* Delta of the frames of the level
TwiceDeltas == {40}

\* Number of updates of the level
MaxTwiceFrames == 1

\* One frame: level.update(dtMs, vp)
TwiceUpdateStep ==
  /\ op \in {"start", "update"}
  /\ ~thrown
  /\ frame < MaxTwiceFrames
  /\ \E dt \in TwiceDeltas :
       \E r \in LevelUpdate(level, dt, vp) :
          /\ level' = r.level
          /\ ended' = r.ended
          /\ thrown' = r.thrown
          /\ lastDt' = dt
  /\ frame' = frame + 1
  /\ op' = "update"
  /\ UNCHANGED <<FixedElements, MobileElements, Layers, vp, fixedKeys, band, placed, layer,
                 drawn, removed>>
  /\ UNCHANGED gameVars

TwiceNext == LevelStartStep \/ TwiceUpdateStep

SpecTwice == TwiceInit /\ [][TwiceNext]_vars

\* yBottom of the band the loop of RuntimeLevel.start computes for the i-th
\* layer of the level: yCursor when the loop reaches it
RECURSIVE StartBottom(_)
StartBottom(i) ==
  IF i = 1 THEN vp.h
  ELSE BandTop(StartBottom(i - 1),
               LayerHeight(level.layers[i - 1].layer, vp, Len(level.layers)))

\* The band the loop of RuntimeLevel.start computes for the i-th layer and
\* hands to its init
StartBand(i) ==
  [ yTop    |-> BandTop(StartBottom(i), LayerHeight(level.layers[i].layer, vp, Len(level.layers))),
    yBottom |-> StartBottom(i) ]

\* C38: RuntimeLevel.update advances every runtime layer with the band that
\* RuntimeLevel.start computed for that layer and initialised it with, so the
\* mobiles of a layer are spawned within the band that holds its props; also
\* for a level definition that lists one layer key at more than one z.
CE_C38_LayerKeepsItsBand ==
  (op = "update" /\ ~thrown) =>
     \A i \in 1..Len(level.layers) :
        /\ LevelBand(i) = StartBand(i)
        /\ \A it \in Mobiles(level.layers[i].layer) :
              StartBand(i).yTop <= it.y /\ it.y <= StartBand(i).yBottom

-----------------------------------------------------------------------------
(* The step-scroll parallax page: moveScene, called by the arrow keys and   *)
(* the swipes, and the animation callbacks it leaves with                   *)
(* requestAnimationFrame.  An animation callback is the closure anim with   *)
(* its own step and frame.                                                  *)

\* const frames = 10
frames == 10

\* Directions the keydown and touchend handlers pass to moveScene
Dirs == {1, 0 - 1}

\* Number of moveScene calls that are accepted in one behaviour
MaxMoves == 3

\* Mutant of Ignored: moveScene takes every call.
IgnoredNever(s) == FALSE

\* if (moving) return
Ignored(s) == s.moving

\* One run of the closure anim, a = [step, frame] its variables:
\* offsetX += step / frames, then the next frame is requested or moving is
\* cleared
anim(s, a) ==
  LET s1 == [s EXCEPT !.offsetX = @ + a.step \div frames, !.call.steps = @ + 1] IN
  IF a.frame + 1 < frames
  THEN [s1 EXCEPT !.anims = Append(@, [a EXCEPT !.frame = @ + 1])]
  ELSE [s1 EXCEPT !.moving = FALSE]

\* The list without its entry i
Without(seq, i) == SubSeq(seq, 1, i - 1) \o SubSeq(seq, i + 1, Len(seq))

SceneInit ==
  /\ FixedElements = SourceFixedElements
  /\ MobileElements = SourceMobileElements
  /\ Layers = SourceLayers
  /\ vp \in Viewports
  /\ fixedKeys = <<>>
  /\ band = NoBand
  /\ placed = <<>>
  /\ layer = NoLayer
  /\ level = NoLevel
  /\ ended = FALSE
  /\ drawn = <<>>
  /\ removed = <<>>
  /\ lastDt = 0
  /\ frame = 0
  /\ op = "load"
  /\ thrown = FALSE
  /\ GameIdle

\* The state variables the page does not touch
notScene ==
  <<FixedElements, MobileElements, Layers, vp, fixedKeys, band, placed, layer, level, ended,
    drawn, removed, state, levelIndex, raf, lastTs, pending, nextId, clock, stopMark, fired, prev,
    lastDt, frame, thrown>>

\* moveScene(dir), from a key or a swipe
moveScene(dir) ==
  /\ IF Ignored(scene)
     THEN /\ scene' = scene
          /\ op' = "ignored"
     ELSE /\ scene.moves < MaxMoves
          /\ scene' = anim([scene EXCEPT !.moving = TRUE,
                                         !.call = [dir |-> dir, from |-> scene.offsetX, steps |-> 0],
                                         !.moves = @ + 1],
                           [step |-> dir * 10, frame |-> 0])
          /\ op' = "moveScene"
  /\ UNCHANGED notScene

\* A frame fires the waiting callback i
animFrame(i) ==
  /\ scene' = anim([scene EXCEPT !.anims = Without(@, i)], scene.anims[i])
  /\ op' = "anim"
  /\ UNCHANGED notScene

SceneMove == \E dir \in Dirs : moveScene(dir)

SceneFrame == \E i \in 1..Len(scene.anims) : animFrame(i)

SceneNext == SceneMove \/ SceneFrame

SpecScene == SceneInit /\ [][SceneNext]_vars

\* C39: moveScene is ignored while an animation is in progress, so at most
\* one animation chain is active at a time; each accepted call runs exactly
\* 10 animation steps, changes offsetX by exactly 10 x dir in total, and then
\* clears the moving flag, so that a later call is accepted.
C39_OneChainOfTenSteps ==
  /\ [](/\ Len(scene.anims) <= 1
        /\ scene.moving <=> scene.anims # <<>>
        /\ scene.moving =>
              /\ scene.call.steps \in 1..(frames - 1)
              /\ scene.anims[1].frame = scene.call.steps
              /\ scene.offsetX = scene.call.from + scene.call.steps * scene.call.dir
        /\ (~scene.moving /\ scene.moves > 0) =>
              /\ scene.call.steps = 10
              /\ scene.offsetX = scene.call.from + 10 * scene.call.dir)
  /\ [][/\ (scene.moving /\ op' \in {"moveScene", "ignored"}) => scene' = scene
        /\ (~scene.moving /\ op' \in {"moveScene", "ignored"}) =>
              (scene'.moving /\ scene'.moves = scene.moves + 1)]_vars

\* C39 witness: a step to the right and a step to the left have both run to
\* their end, and a call made during an animation was ignored by the one
\* before: the page is back at offset 0, at rest.
W_C39_ThereAndBack ==
  /\ ~scene.moving
  /\ scene.moves = 2
  /\ scene.call.dir = 0 - 1
  /\ scene.call.steps = 10
  /\ scene.offsetX = 0
  /\ op = "anim"

====
